---- MODULE Spec2Model ----
(***************************************************************************)
(* ZHA topology visualizer: the export's topology (main.py), the hierarchy *)
(* builder, the primary-link cascade and the path walk (visualize.py).     *)
(* Device identities (ieee strings) are integers: their order stands for   *)
(* the lexicographic order of the strings.  A Python dict is a function    *)
(* whose DOMAIN is its key set; where the code iterates a dict, the model  *)
(* iterates the list the dict was filled from (insertion order).           *)
(***************************************************************************)
EXTENDS Integers, Sequences, FiniteSets, TLC

\* ---- bounds of the model
\* devices of a scanned snapshot
NumDevices == 3
\* neighbor and route records one scan delivers, and the routes among them
MaxRecords == 2
MaxRoutes == 1
\* link qualities are 0 .. MaxLqi
MaxLqi == 2
\* devices of a snapshot of parent chains
PathDevices == 4
\* refresh threads the HTTP handlers start
MaxHttpThreads == 2
\* the auto-refresh loop ticks while last_refresh_time is below this
MaxRefreshTime == 2
\* commands one exporter sends
MaxCommands == 3
\* messages the socket holds unread
MaxInbox == 2

\* Python's None, where it stands in a place that otherwise holds a number.
None == 0 - 1000
\* The sentinel that starts a search for the best lqi.
NoLqi == 0 - 1

VARIABLES devices, topology, hierarchy, device_primary_link, device_paths,
          walk_steps, html_written, pc

\* server.py: the globals of the server, the two files of the data
\* directory, the position of every thread that can run do_refresh and of
\* the thread that handles the HTTP requests
VARIABLES refresh_lock, is_refreshing, refresh_error, last_refresh_time,
          html_file, export_file, threads, http

\* main.py: the message counter of a ZHAExporter, its call of ws_command, the
\* messages the socket holds for it and the value the call returned
VARIABLES msg_id, ws_call, ws_inbox, ws_result

server_vars == <<refresh_lock, is_refreshing, refresh_error, last_refresh_time,
                 html_file, export_file, threads, http>>

ws_vars == <<msg_id, ws_call, ws_inbox, ws_result>>

engine_vars == <<devices, topology, hierarchy, device_primary_link,
                 device_paths, walk_steps, html_written, pc>>

vars == <<devices, topology, hierarchy, device_primary_link, device_paths,
          walk_steps, html_written, pc, server_vars, ws_vars>>

\* ---- dicts
EmptyDict == <<>>

Put(d, k, v) == [x \in (DOMAIN d) \cup {k} |-> IF x = k THEN v ELSE d[x]]

Has(d, k) == k \in DOMAIN d

Min2(a, b) == IF a <= b THEN a ELSE b

Max2(a, b) == IF a >= b THEN a ELSE b

\* the key without the sort: a pair in the order given
UnsortedKey(a, b) == <<a, b>>

\* tuple(sorted([id1, id2]))
SortedKey(a, b) == <<Min2(a, b), Max2(a, b)>>

\* ---- network addresses as the export stores them: an integer, or a string
\* of digits with or without the 0x prefix.
IntNwk(n) == [kind |-> "int", val |-> n, digits |-> <<>>]

HexNwk(n) == [kind |-> "hex", val |-> 0, digits |-> <<n \div 16, n % 16>>]

DecNwk(n) == [kind |-> "dec", val |-> 0, digits |-> <<n \div 10, n % 10>>]

NoNwk == [kind |-> "none", val |-> 0, digits |-> <<>>]

RECURSIVE ParseDigits(_, _)
ParseDigits(ds, base) ==
    IF ds = <<>> THEN 0
    ELSE ParseDigits(SubSeq(ds, 1, Len(ds) - 1), base) * base + ds[Len(ds)]

\* nwk_to_int: None when the value is missing or does not parse.
nwk_to_int(raw) ==
    CASE raw.kind = "int" -> raw.val
      [] raw.kind = "hex" -> ParseDigits(raw.digits, 16)
      [] raw.kind = "dec" ->
            IF \A i \in DOMAIN raw.digits : raw.digits[i] <= 9
            THEN ParseDigits(raw.digits, 10) ELSE None
      [] OTHER -> None

\* Python's truth value of a stored nwk: 0 and None are false, every
\* non-empty string is true.
NwkTruthy(raw) ==
    CASE raw.kind = "int" -> raw.val # 0
      [] raw.kind = "none" -> FALSE
      [] OTHER -> raw.digits # <<>>

\* A reported link quality that int() rejects (a string such as 'abc').
NonNumeric == 0 - 2000
\* A reported link quality below 0.
NegLqi == 0 - 5
\* The greatest link quality of the Zigbee scale.
LqiMax == 255

\* int(lqi_raw) if lqi_raw else 0, under try/except: a falsy value (0) and
\* a value int() rejects become 0, any other integer is kept as it is.
LqiInt(raw) ==
    IF raw = NonNumeric THEN 0
    ELSE IF raw # 0 THEN raw ELSE 0

\* int(n.get('lqi', 0)) if n.get('lqi') else 0, without try/except: TRUE when
\* the conversion raises ValueError
LqiIntRaises(raw) == raw = NonNumeric

\* ---- main.py: ZHAExporter.build_topology
TopologyNode(d) ==
    [id |-> d.ieee, device_type |-> d.device_type,
     is_coordinator |-> (d.device_type = "Coordinator")]

RECURSIVE NeighborEdges(_, _, _)
NeighborEdges(d, nbrs, n) ==
    IF n = 0 THEN <<>>
    ELSE LET nb == nbrs[n]
             rest == NeighborEdges(d, nbrs, n - 1)
         IN IF nb.ieee # 0
            THEN Append(rest, [source |-> d.ieee, target |-> nb.ieee,
                               lqi |-> LqiInt(nb.lqi),
                               relationship |-> nb.relationship])
            ELSE rest

RECURSIVE TopologyEdges(_, _)
TopologyEdges(devs, n) ==
    IF n = 0 THEN <<>>
    ELSE TopologyEdges(devs, n - 1)
         \o NeighborEdges(devs[n], devs[n].neighbors, Len(devs[n].neighbors))

build_topology(devs) ==
    [nodes |-> [i \in DOMAIN devs |-> TopologyNode(devs[i])],
     edges |-> TopologyEdges(devs, Len(devs))]

\* ---- visualize.py: build_hierarchy
NodeIds(nodes) == {nodes[i].id : i \in DOMAIN nodes}

\* nodes.get(id).get('device_type'), "" when the id is no node
NodeType(nodes, id) ==
    IF \E i \in DOMAIN nodes : nodes[i].id = id
    THEN nodes[CHOOSE i \in DOMAIN nodes : nodes[i].id = id].device_type
    ELSE ""

IsCoordinatorNode(nodes, id) ==
    \E i \in DOMAIN nodes : nodes[i].id = id /\ nodes[i].is_coordinator

\* the first node with is_coordinator; 0 when there is none
FindCoordinator(nodes) ==
    IF \E i \in DOMAIN nodes : nodes[i].is_coordinator
    THEN nodes[CHOOSE i \in DOMAIN nodes :
                  /\ nodes[i].is_coordinator
                  /\ \A j \in DOMAIN nodes : nodes[j].is_coordinator => i <= j].id
    ELSE 0

RECURSIVE BestLink(_, _)
BestLink(edges, n) ==
    IF n = 0 THEN EmptyDict
    ELSE LET prev == BestLink(edges, n - 1)
             e == edges[n]
             key == SortedKey(e.source, e.target)
         IN IF ~Has(prev, key) \/ e.lqi > prev[key]
            THEN Put(prev, key, e.lqi) ELSE prev

get_link_lqi(edges, id1, id2) ==
    LET best_link == BestLink(edges, Len(edges))
        key == SortedKey(id1, id2)
    IN IF Has(best_link, key) THEN best_link[key] ELSE 0

RouterTypes == {"Router", "Coordinator"}

\* the test with >= in place of >: the last of equal candidates wins
BetterOrEqual(d, k, lqi) == ~Has(d, k) \/ lqi >= d[k][2]

Better(d, k, lqi) == ~Has(d, k) \/ lqi > d[k][2]

RECURSIVE RouterParents(_, _, _)
RouterParents(nodes, edges, n) ==
    IF n = 0 THEN EmptyDict
    ELSE LET prev == RouterParents(nodes, edges, n - 1)
             e == edges[n]
             afterParent ==
                 IF /\ e.relationship = "Parent"
                    /\ NodeType(nodes, e.source) = "Router"
                    /\ Better(prev, e.source, e.lqi)
                 THEN Put(prev, e.source, <<e.target, e.lqi>>) ELSE prev
         IN IF /\ e.relationship = "Child"
               /\ NodeType(nodes, e.target) = "Router"
               /\ NodeType(nodes, e.source) \in RouterTypes
               /\ Better(afterParent, e.target, e.lqi)
            THEN Put(afterParent, e.target, <<e.source, e.lqi>>)
            ELSE afterParent

\* lqi if lqi > 0 else None
LqiOrNone(lqi) == IF lqi > 0 THEN lqi ELSE None

\* children[parent].append(item) on a defaultdict(list)
AppendChild(children, parent, item) ==
    Put(children, parent,
        IF Has(children, parent) THEN Append(children[parent], item)
        ELSE <<item>>)

RECURSIVE AssignRouters(_, _, _, _, _)
AssignRouters(nodes, edges, coord, rp, n) ==
    IF n = 0 THEN EmptyDict
    ELSE LET prev == AssignRouters(nodes, edges, coord, rp, n - 1)
             rid == nodes[n].id
         IN IF nodes[n].device_type # "Router" THEN prev
            ELSE IF Has(rp, rid)
            THEN AppendChild(prev, rp[rid][1], <<rid, LqiOrNone(rp[rid][2])>>)
            ELSE AppendChild(prev, coord,
                             <<rid, LqiOrNone(get_link_lqi(edges, coord, rid))>>)

RECURSIVE EndDeviceParent(_, _, _)
EndDeviceParent(nodes, edges, n) ==
    IF n = 0 THEN EmptyDict
    ELSE LET prev == EndDeviceParent(nodes, edges, n - 1)
             e == edges[n]
         IN IF /\ e.relationship = "Child"
               /\ NodeType(nodes, e.source) \in RouterTypes
               /\ NodeType(nodes, e.target) = "EndDevice"
               /\ Better(prev, e.target, e.lqi)
            THEN Put(prev, e.target, <<e.source, e.lqi>>) ELSE prev

\* the scan with >= in place of >: an edge of lqi 0 attaches the end device
RECURSIVE BestEdgeParentAnyLqi(_, _, _, _, _)
BestEdgeParentAnyLqi(nodes, edges, coord, did, n) ==
    IF n = 0 THEN <<coord, 0>>
    ELSE LET prev == BestEdgeParentAnyLqi(nodes, edges, coord, did, n - 1)
             e == edges[n]
             other_id == IF e.source = did THEN e.target ELSE e.source
         IN IF /\ (e.source = did \/ e.target = did)
               /\ NodeType(nodes, other_id) \in RouterTypes
               /\ e.lqi >= prev[2]
            THEN <<other_id, e.lqi>> ELSE prev

\* the scan of all edges touching an end device: <<best_parent_id, best_lqi>>
RECURSIVE BestEdgeParent(_, _, _, _, _)
BestEdgeParent(nodes, edges, coord, did, n) ==
    IF n = 0 THEN <<coord, 0>>
    ELSE LET prev == BestEdgeParent(nodes, edges, coord, did, n - 1)
             e == edges[n]
             other_id == IF e.source = did THEN e.target ELSE e.source
         IN IF /\ (e.source = did \/ e.target = did)
               /\ NodeType(nodes, other_id) \in RouterTypes
               /\ e.lqi > prev[2]
            THEN <<other_id, e.lqi>> ELSE prev

RECURSIVE AssignEndDevices(_, _, _, _, _, _, _)
AssignEndDevices(nodes, edges, coord, edp, assigned, start, n) ==
    IF n = 0 THEN start
    ELSE LET prev == AssignEndDevices(nodes, edges, coord, edp, assigned,
                                      start, n - 1)
             did == nodes[n].id
             best == BestEdgeParent(nodes, edges, coord, did, Len(edges))
         IN IF nodes[n].device_type # "EndDevice" \/ did \in assigned THEN prev
            ELSE IF Has(edp, did)
            THEN AppendChild(prev, edp[did][1], <<did, LqiOrNone(edp[did][2])>>)
            ELSE AppendChild(prev, best[1], <<did, LqiOrNone(best[2])>>)

\* the orphan loop without its test of assigned
RECURSIVE AssignOrphansAll(_, _, _, _, _)
AssignOrphansAll(nodes, coord, assigned, start, n) ==
    IF n = 0 THEN start
    ELSE LET prev == AssignOrphansAll(nodes, coord, assigned, start, n - 1)
         IN IF nodes[n].id = coord THEN prev
            ELSE AppendChild(prev, coord, <<nodes[n].id, None>>)

RECURSIVE AssignOrphans(_, _, _, _, _)
AssignOrphans(nodes, coord, assigned, start, n) ==
    IF n = 0 THEN start
    ELSE LET prev == AssignOrphans(nodes, coord, assigned, start, n - 1)
         IN IF nodes[n].id \in assigned THEN prev
            ELSE AppendChild(prev, coord, <<nodes[n].id, None>>)

\* the sort key of a children entry: (0 if Router else 1, -(lqi or 0))
SortKey(nodes, x) ==
    <<IF NodeType(nodes, x[1]) = "Router" THEN 0 ELSE 1,
      0 - (IF x[2] = None THEN 0 ELSE x[2])>>

KeyLeq(a, b) == a[1] < b[1] \/ (a[1] = b[1] /\ a[2] <= b[2])

\* the list as it was filled
AsAssigned(nodes, s) == s

\* list.sort is stable: an entry goes after every entry whose key is not larger
RECURSIVE SortChildren(_, _)
SortChildren(nodes, s) ==
    IF s = <<>> THEN s
    ELSE LET x == s[Len(s)]
             front == SortChildren(nodes, SubSeq(s, 1, Len(s) - 1))
             Before(y) == KeyLeq(SortKey(nodes, y), SortKey(nodes, x))
             After(y) == ~KeyLeq(SortKey(nodes, y), SortKey(nodes, x))
         IN SelectSeq(front, Before) \o <<x>> \o SelectSeq(front, After)

NoHierarchy == [ok |-> FALSE, coordinator |-> 0, nodes |-> <<>>,
                children |-> EmptyDict]

\* build_hierarchy below its test for a coordinator
HierarchyOf(topo) ==
    LET nodes == topo.nodes
        edges == topo.edges
        coord == FindCoordinator(nodes)
        rp == RouterParents(nodes, edges, Len(edges))
        afterRouters == AssignRouters(nodes, edges, coord, rp, Len(nodes))
        assigned1 == {coord} \cup
                     {nodes[i].id : i \in {j \in DOMAIN nodes :
                                             nodes[j].device_type = "Router"}}
        edp == EndDeviceParent(nodes, edges, Len(edges))
        afterEnd == AssignEndDevices(nodes, edges, coord, edp, assigned1,
                                     afterRouters, Len(nodes))
        assigned2 == assigned1 \cup
                     {nodes[i].id : i \in {j \in DOMAIN nodes :
                                             nodes[j].device_type = "EndDevice"}}
        afterOrphans == AssignOrphans(nodes, coord, assigned2, afterEnd,
                                      Len(nodes))
    IN [ok |-> TRUE, coordinator |-> coord, nodes |-> nodes,
        children |-> [p \in DOMAIN afterOrphans |->
                         SortChildren(nodes, afterOrphans[p])]]

\* build_hierarchy without the early return
build_hierarchy_unchecked(topo) == HierarchyOf(topo)

build_hierarchy(topo) ==
    IF FindCoordinator(topo.nodes) = 0 THEN NoHierarchy ELSE HierarchyOf(topo)

\* ---- visualize.py: generate_html, the primary-link cascade
DeviceIds(devs) == {devs[i].ieee : i \in DOMAIN devs}

\* nwk_to_ieee: keyed by the nwk as stored, a later device replacing an
\* earlier one with the same key
RECURSIVE NwkToIeee(_, _)
NwkToIeee(devs, n) ==
    IF n = 0 THEN EmptyDict
    ELSE LET prev == NwkToIeee(devs, n - 1)
         IN IF NwkTruthy(devs[n].nwk) THEN Put(prev, devs[n].nwk, devs[n].ieee)
            ELSE prev

\* nwk_to_ieee.get(next_hop_nwk): an integer key equals a stored integer only
IndexGet(index, nwkInt) ==
    IF Has(index, IntNwk(nwkInt)) THEN index[IntNwk(nwkInt)] ELSE 0

\* every route status taken as valid
AnyRouteStatus == {"Active", "Validation_Underway", "Inactive"}

valid_route_statuses == {"Active", "Validation_Underway"}

\* the next hop of a route: the coordinator for 0, else the index's answer
NextHopIeee(index, coord, next_hop_nwk) ==
    IF next_hop_nwk = 0 THEN coord ELSE IndexGet(index, next_hop_nwk)

\* the lqi of the first own neighbor entry that matches the next hop
RECURSIVE RouteLqi(_, _, _, _)
RouteLqi(nbrs, i, next_hop_nwk, next_hop_ieee) ==
    IF i > Len(nbrs) THEN 0
    ELSE IF \/ nwk_to_int(nbrs[i].nwk) = next_hop_nwk
            \/ nbrs[i].ieee = next_hop_ieee
    THEN LqiInt(nbrs[i].lqi)
    ELSE RouteLqi(nbrs, i + 1, next_hop_nwk, next_hop_ieee)

RouteUsable(route, index, coord, nodes) ==
    /\ route.route_status \in valid_route_statuses
    /\ nwk_to_int(route.dest_nwk) = 0
    /\ nwk_to_int(route.next_hop) # None
    /\ LET hop == NextHopIeee(index, coord, nwk_to_int(route.next_hop))
       IN hop # 0 /\ hop \in NodeIds(nodes)

\* coord_route: <<next_hop_ieee, lqi>> of the first usable route, <<>> if none
RECURSIVE CoordRoute(_, _, _, _, _)
CoordRoute(device, i, index, coord, nodes) ==
    IF i > Len(device.routes) THEN <<>>
    ELSE IF RouteUsable(device.routes[i], index, coord, nodes)
    THEN LET hopNwk == nwk_to_int(device.routes[i].next_hop)
             hop == NextHopIeee(index, coord, hopNwk)
         IN <<hop, RouteLqi(device.neighbors, 1, hopNwk, hop)>>
    ELSE CoordRoute(device, i + 1, index, coord, nodes)

Link(target, lqi, source_type) ==
    [target |-> target, lqi |-> lqi, source_type |-> source_type]

RECURSIVE RouteLinks(_, _, _, _)
RouteLinks(devs, nodes, coord, n) ==
    IF n = 0 THEN EmptyDict
    ELSE LET prev == RouteLinks(devs, nodes, coord, n - 1)
             d == devs[n]
             cr == CoordRoute(d, 1, NwkToIeee(devs, Len(devs)), coord, nodes)
         IN IF \/ d.routes = <<>>
               \/ d.ieee \notin NodeIds(nodes)
               \/ IsCoordinatorNode(nodes, d.ieee)
               \/ cr = <<>>
            THEN prev
            ELSE Put(prev, d.ieee, Link(cr[1], cr[2], "route"))

\* the Parent entry of highest lqi in place of the first one
BestParentEntry(nbrs, i, nodes) ==
    LET P == {k \in DOMAIN nbrs :
                /\ k >= i
                /\ nbrs[k].relationship = "Parent"
                /\ nbrs[k].ieee # 0
                /\ nbrs[k].ieee \in NodeIds(nodes)}
    IN IF P = {} THEN 0
       ELSE CHOOSE k \in P :
               \A j \in P : \/ LqiInt(nbrs[j].lqi) < LqiInt(nbrs[k].lqi)
                            \/ (LqiInt(nbrs[j].lqi) = LqiInt(nbrs[k].lqi) /\ k <= j)

\* the first own neighbor entry marked Parent that names a node; 0 if none
RECURSIVE FirstParentEntry(_, _, _)
FirstParentEntry(nbrs, i, nodes) ==
    IF i > Len(nbrs) THEN 0
    ELSE IF /\ nbrs[i].relationship = "Parent"
            /\ nbrs[i].ieee # 0
            /\ nbrs[i].ieee \in NodeIds(nodes)
    THEN i
    ELSE FirstParentEntry(nbrs, i + 1, nodes)

\* the parent loop without its test for a link set by an earlier rule
RECURSIVE ParentLinksOverride(_, _, _, _)
ParentLinksOverride(devs, nodes, start, n) ==
    IF n = 0 THEN start
    ELSE LET prev == ParentLinksOverride(devs, nodes, start, n - 1)
             d == devs[n]
             i == FirstParentEntry(d.neighbors, 1, nodes)
         IN IF d.ieee \notin NodeIds(nodes) \/ i = 0
            THEN prev
            ELSE Put(prev, d.ieee,
                     Link(d.neighbors[i].ieee, LqiInt(d.neighbors[i].lqi),
                          "parent"))

RECURSIVE ParentLinks(_, _, _, _)
ParentLinks(devs, nodes, start, n) ==
    IF n = 0 THEN start
    ELSE LET prev == ParentLinks(devs, nodes, start, n - 1)
             d == devs[n]
             i == FirstParentEntry(d.neighbors, 1, nodes)
         IN IF Has(prev, d.ieee) \/ d.ieee \notin NodeIds(nodes) \/ i = 0
            THEN prev
            ELSE Put(prev, d.ieee,
                     Link(d.neighbors[i].ieee, LqiInt(d.neighbors[i].lqi),
                          "parent"))

\* the scan with >= in place of >: the last of equal reports wins
RECURSIVE ChildReportsLastWins(_, _, _, _, _)
ChildReportsLastWins(nbrs, i, other, ieee, best) ==
    IF i > Len(nbrs) THEN best
    ELSE ChildReportsLastWins(nbrs, i + 1, other, ieee,
            IF /\ nbrs[i].ieee = ieee
               /\ nbrs[i].relationship = "Child"
               /\ LqiInt(nbrs[i].lqi) >= best[2]
            THEN <<other, LqiInt(nbrs[i].lqi)>> ELSE best)

\* the scan of one reporter's neighbor list for Child reports of ieee
RECURSIVE ChildReports(_, _, _, _, _)
ChildReports(nbrs, i, other, ieee, best) ==
    IF i > Len(nbrs) THEN best
    ELSE ChildReports(nbrs, i + 1, other, ieee,
            IF /\ nbrs[i].ieee = ieee
               /\ nbrs[i].relationship = "Child"
               /\ LqiInt(nbrs[i].lqi) > best[2]
            THEN <<other, LqiInt(nbrs[i].lqi)>> ELSE best)

\* <<best_parent, best_lqi>> over all other devices, <<0, -1>> if none
RECURSIVE BestReporter(_, _, _, _)
BestReporter(devs, nodes, ieee, n) ==
    IF n = 0 THEN <<0, NoLqi>>
    ELSE LET prev == BestReporter(devs, nodes, ieee, n - 1)
             o == devs[n]
         IN IF \/ o.ieee = ieee
               \/ NodeType(nodes, o.ieee) \notin RouterTypes
            THEN prev
            ELSE ChildReports(o.neighbors, 1, o.ieee, ieee, prev)

RECURSIVE InboundChildLinks(_, _, _, _)
InboundChildLinks(devs, nodes, start, n) ==
    IF n = 0 THEN start
    ELSE LET prev == InboundChildLinks(devs, nodes, start, n - 1)
             ieee == nodes[n].id
             best == BestReporter(devs, nodes, ieee, Len(devs))
         IN IF Has(prev, ieee) \/ nodes[n].is_coordinator \/ best[1] = 0
            THEN prev
            ELSE Put(prev, ieee, Link(best[1], best[2], "parent"))

\* the scan of a device's own neighbor list: <<best_neighbor, best_lqi>>
\* the scan without the test of the neighbor's type
RECURSIVE BestOwnNeighborAnyType(_, _, _, _, _)
BestOwnNeighborAnyType(nbrs, i, nodes, device_type, best) ==
    IF i > Len(nbrs) THEN best
    ELSE BestOwnNeighborAnyType(nbrs, i + 1, nodes, device_type,
            IF /\ nbrs[i].ieee # 0
               /\ nbrs[i].ieee \in NodeIds(nodes)
               /\ LqiInt(nbrs[i].lqi) > best[2]
            THEN <<nbrs[i].ieee, LqiInt(nbrs[i].lqi)>> ELSE best)

RECURSIVE BestOwnNeighbor(_, _, _, _, _)
BestOwnNeighbor(nbrs, i, nodes, device_type, best) ==
    IF i > Len(nbrs) THEN best
    ELSE BestOwnNeighbor(nbrs, i + 1, nodes, device_type,
            IF /\ nbrs[i].ieee # 0
               /\ nbrs[i].ieee \in NodeIds(nodes)
               /\ (device_type = "EndDevice"
                     => NodeType(nodes, nbrs[i].ieee) \in RouterTypes)
               /\ LqiInt(nbrs[i].lqi) > best[2]
            THEN <<nbrs[i].ieee, LqiInt(nbrs[i].lqi)>> ELSE best)

RECURSIVE OwnNeighborLinks(_, _, _, _)
OwnNeighborLinks(devs, nodes, start, n) ==
    IF n = 0 THEN start
    ELSE LET prev == OwnNeighborLinks(devs, nodes, start, n - 1)
             d == devs[n]
             best == BestOwnNeighbor(d.neighbors, 1, nodes,
                                     NodeType(nodes, d.ieee), <<0, NoLqi>>)
         IN IF \/ Has(prev, d.ieee)
               \/ d.ieee \notin NodeIds(nodes)
               \/ IsCoordinatorNode(nodes, d.ieee)
               \/ best[1] = 0
            THEN prev
            ELSE Put(prev, d.ieee, Link(best[1], best[2], "neighbor"))

\* the fallback loop run over the end devices only
RECURSIVE FallbackLinksEndDevices(_, _, _, _)
FallbackLinksEndDevices(nodes, coord, start, n) ==
    IF n = 0 THEN start
    ELSE LET prev == FallbackLinksEndDevices(nodes, coord, start, n - 1)
             ieee == nodes[n].id
         IN IF \/ Has(prev, ieee) \/ ieee = coord
               \/ nodes[n].device_type # "EndDevice"
            THEN prev
            ELSE Put(prev, ieee, Link(coord, None, "fallback"))

RECURSIVE FallbackLinks(_, _, _, _)
FallbackLinks(nodes, coord, start, n) ==
    IF n = 0 THEN start
    ELSE LET prev == FallbackLinks(nodes, coord, start, n - 1)
             ieee == nodes[n].id
         IN IF Has(prev, ieee) \/ ieee = coord THEN prev
            ELSE Put(prev, ieee, Link(coord, None, "fallback"))

\* the cascade with the own-neighbor rule ahead of the inbound-Child rule
PrimaryLinksNeighborFirst(devs, hier) ==
    LET nodes == hier.nodes
        coord == hier.coordinator
        byRoute == RouteLinks(devs, nodes, coord, Len(devs))
        byParent == ParentLinks(devs, nodes, byRoute, Len(devs))
        byNeighbor == OwnNeighborLinks(devs, nodes, byParent, Len(devs))
        byChild == InboundChildLinks(devs, nodes, byNeighbor, Len(nodes))
    IN FallbackLinks(nodes, coord, byChild, Len(nodes))

PrimaryLinks(devs, hier) ==
    LET nodes == hier.nodes
        coord == hier.coordinator
        byRoute == RouteLinks(devs, nodes, coord, Len(devs))
        byParent == ParentLinks(devs, nodes, byRoute, Len(devs))
        byChild == InboundChildLinks(devs, nodes, byParent, Len(nodes))
        byNeighbor == OwnNeighborLinks(devs, nodes, byChild, Len(devs))
    IN FallbackLinks(nodes, coord, byNeighbor, Len(nodes))

\* ---- visualize.py: generate_html, the path to the coordinator
Hop(nodes, link) ==
    [id |-> link.target, lqi |-> link.lqi,
     device_type |-> IF link.target \in NodeIds(nodes)
                     THEN NodeType(nodes, link.target) ELSE "Unknown"]

\* the while loop without its test of visited, cut off after twice as many
\* iterations as there are nodes
RECURSIVE WalkNoVisited(_, _, _, _, _, _)
WalkNoVisited(links, nodes, coord, current, visited, acc) ==
    IF current = 0 \/ current = coord \/ acc.steps >= 2 * Len(nodes) THEN acc
    ELSE IF Has(links, current)
    THEN WalkNoVisited(links, nodes, coord, links[current].target,
                       visited \cup {current},
                       [path |-> Append(acc.path, Hop(nodes, links[current])),
                        steps |-> acc.steps + 1])
    ELSE [path |-> acc.path, steps |-> acc.steps + 1]

\* the while loop leaving out the hop that arrives at the coordinator
RECURSIVE WalkDropsCoordinator(_, _, _, _, _, _)
WalkDropsCoordinator(links, nodes, coord, current, visited, acc) ==
    IF current = 0 \/ current = coord \/ current \in visited THEN acc
    ELSE IF Has(links, current) /\ links[current].target # coord
    THEN WalkDropsCoordinator(links, nodes, coord, links[current].target,
              visited \cup {current},
              [path |-> Append(acc.path, Hop(nodes, links[current])),
               steps |-> acc.steps + 1])
    ELSE [path |-> acc.path, steps |-> acc.steps + 1]

\* the while loop: the path and the number of iterations it ran
RECURSIVE Walk(_, _, _, _, _, _)
Walk(links, nodes, coord, current, visited, acc) ==
    IF current = 0 \/ current = coord \/ current \in visited THEN acc
    ELSE IF Has(links, current)
    THEN Walk(links, nodes, coord, links[current].target,
              visited \cup {current},
              [path |-> Append(acc.path, Hop(nodes, links[current])),
               steps |-> acc.steps + 1])
    ELSE [path |-> acc.path, steps |-> acc.steps + 1]

PathWalk(links, nodes, coord, node_id) ==
    IF node_id = coord THEN [path |-> <<>>, steps |-> 0]
    ELSE Walk(links, nodes, coord, node_id, {}, [path |-> <<>>, steps |-> 0])

DevicePaths(links, hier) ==
    [id \in NodeIds(hier.nodes) |->
        PathWalk(links, hier.nodes, hier.coordinator, id)]

\* ---- the snapshot: what zha/devices returns after the topology scan
DeviceTypes == {"Coordinator", "Router", "EndDevice", "Unknown"}

Relationships == {"Parent", "Child", "Sibling"}

RouteStatuses == {"Active", "Validation_Underway", "Inactive"}

NwkForms == {"int", "hex", "dec"}

\* the coordinator's network address is 0; the others are two-digit numbers
\* whose hexadecimal and decimal spellings differ
NwkValue(ieee, device_type) == IF device_type = "Coordinator" THEN 0 ELSE 16 + ieee

StoreNwk(form, n) ==
    CASE form = "int" -> IntNwk(n)
      [] form = "hex" -> HexNwk(n)
      [] OTHER -> DecNwk(n)

Device(ieee, device_type, form) ==
    [ieee |-> ieee, device_type |-> device_type,
     nwk |-> StoreNwk(form, NwkValue(ieee, device_type)),
     neighbors |-> <<>>, routes |-> <<>>]

\* device lists with one coordinator, and the list of routers only: without
\* a coordinator build_hierarchy returns before it reads anything else
TypeVectors(n, types) ==
    {t \in [1 .. n -> types \cup {"Coordinator"}] :
        Cardinality({i \in 1 .. n : t[i] = "Coordinator"}) = 1}
    \cup {[i \in 1 .. n |-> "Router"]}

RECURSIVE SumLen(_, _, _)
SumLen(devs, n, field) ==
    IF n = 0 THEN 0
    ELSE SumLen(devs, n - 1, field)
         + (IF field = "neighbors" THEN Len(devs[n].neighbors)
            ELSE Len(devs[n].routes))

Records(devs) ==
    SumLen(devs, Len(devs), "neighbors") + SumLen(devs, Len(devs), "routes")

\* the address a neighbor entry carries for the device it names
NeighborNwk(devs, ieee) ==
    HexNwk(IF ieee \in DOMAIN devs
           THEN NwkValue(ieee, devs[ieee].device_type) ELSE 16 + ieee)

\* the threads that can run do_refresh: the initial refresh, the auto-refresh
\* loop and the threads started by HTTP handlers
InitThread == 1
AutoThread == 2
HttpThreads == 3 .. 2 + MaxHttpThreads
ThreadIds == {InitThread, AutoThread} \cup HttpThreads

\* str(e) of the exception of the export and of the generation
ExportError == 1
GenerateError == 2

\* the server before main() has run
ServerIdle ==
    /\ refresh_lock = 0
    /\ is_refreshing = FALSE
    /\ refresh_error = None
    /\ last_refresh_time = 0
    /\ html_file = "absent"
    /\ export_file = "absent"
    /\ threads = [t \in ThreadIds |-> "unstarted"]
    /\ http = [pc |-> "idle", response |-> "none"]

\* an exporter that has sent no command
WsIdle ==
    /\ msg_id = 0
    /\ ws_call = [pc |-> "idle", id |-> 0, skipped |-> {}]
    /\ ws_inbox = <<>>
    /\ ws_result = [kind |-> "none"]

Idle ==
    /\ topology = [nodes |-> <<>>, edges |-> <<>>]
    /\ hierarchy = NoHierarchy
    /\ device_primary_link = EmptyDict
    /\ device_paths = EmptyDict
    /\ walk_steps = EmptyDict
    /\ html_written = FALSE
    /\ pc = "scan"
    /\ ServerIdle
    /\ WsIdle

\* a scan of NumDevices devices of any type, at most one of them Unknown
Init ==
    /\ \E t \in TypeVectors(NumDevices, {"Router", "EndDevice", "Unknown"}) :
          /\ Cardinality({i \in 1 .. NumDevices : t[i] = "Unknown"}) <= 1
          /\ devices = [i \in 1 .. NumDevices |-> Device(i, t[i], "int")]
    /\ Idle

\* a scan with routes: the coordinator is the first device of the list
InitRoute ==
    /\ \E t \in TypeVectors(NumDevices, {"Router", "EndDevice"}) :
          /\ t[1] \in {"Coordinator"} \/ \A i \in 1 .. NumDevices : t[i] = "Router"
          /\ devices = [i \in 1 .. NumDevices |-> Device(i, t[i], "int")]
    /\ Idle

\* a scan of PathDevices devices in which a device reports at most one
\* neighbor, its parent: every chain and every cycle of parents
InitPath ==
    /\ \E t \in TypeVectors(PathDevices, {"Router", "EndDevice", "Unknown"}) :
       \E parent \in [2 .. PathDevices -> 0 .. PathDevices] :
          /\ t[1] \in {"Coordinator"} \/ \A i \in 1 .. PathDevices : t[i] = "Router"
          /\ Cardinality({i \in 1 .. PathDevices : t[i] = "Unknown"}) <= 1
          /\ \A i \in 2 .. PathDevices : parent[i] # i
          /\ devices =
                [i \in 1 .. PathDevices |->
                   [Device(i, t[i], "int") EXCEPT !.neighbors =
                      IF i = 1 \/ parent[i] = 0 THEN <<>>
                      ELSE <<[ieee |-> parent[i],
                              nwk |-> HexNwk(NwkValue(parent[i], t[parent[i]])),
                              lqi |-> i % (MaxLqi + 1),
                              relationship |-> "Parent"]>>]]
    /\ Idle

\* one neighbor-table entry of device i arrives with the scan
ScanNeighbor ==
    /\ pc = "scan"
    /\ Records(devices) < MaxRecords
    /\ \E i \in DOMAIN devices :
       \E target \in (1 .. Len(devices) + 1) \ {i} :
       \E lqi \in 0 .. MaxLqi :
       \E rel \in Relationships :
          devices' = [devices EXCEPT ![i].neighbors =
                         Append(@, [ieee |-> target,
                                    nwk |-> NeighborNwk(devices, target),
                                    lqi |-> lqi, relationship |-> rel])]
    /\ UNCHANGED <<topology, hierarchy, device_primary_link, device_paths,
                   walk_steps, html_written, pc>>
    /\ UNCHANGED <<server_vars, ws_vars>>

\* one routing-table entry of device i arrives with the scan
ScanRoute ==
    /\ pc = "scan"
    /\ Records(devices) < MaxRecords
    /\ SumLen(devices, Len(devices), "routes") < MaxRoutes
    /\ \E i \in DOMAIN devices :
       \E dest \in {0, 16 + i} :
       \E hop \in {0} \cup {16 + j : j \in 2 .. Len(devices) + 1} :
       \E status \in RouteStatuses :
          devices' = [devices EXCEPT ![i].routes =
                         Append(@, [dest_nwk |-> HexNwk(dest),
                                    next_hop |-> HexNwk(hop),
                                    route_status |-> status])]
    /\ UNCHANGED <<topology, hierarchy, device_primary_link, device_paths,
                   walk_steps, html_written, pc>>
    /\ UNCHANGED <<server_vars, ws_vars>>

\* main.py export_all: the export file holds the devices and their topology
ExportAll ==
    /\ pc = "scan"
    /\ topology' = build_topology(devices)
    /\ pc' = "exported"
    /\ UNCHANGED <<devices, hierarchy, device_primary_link, device_paths,
                   walk_steps, html_written>>
    /\ UNCHANGED <<server_vars, ws_vars>>

\* generate_visualization: hierarchy = build_hierarchy(data)
BuildHierarchy ==
    /\ pc = "exported"
    /\ hierarchy' = build_hierarchy(topology)
    /\ pc' = "hierarchy"
    /\ UNCHANGED <<devices, topology, device_primary_link, device_paths,
                   walk_steps, html_written>>
    /\ UNCHANGED <<server_vars, ws_vars>>

\* generate_visualization: if not hierarchy: raise ValueError
RaiseNoHierarchy ==
    /\ pc = "hierarchy"
    /\ ~hierarchy.ok
    /\ pc' = "error"
    /\ UNCHANGED <<devices, topology, hierarchy, device_primary_link,
                   device_paths, walk_steps, html_written>>
    /\ UNCHANGED <<server_vars, ws_vars>>

\* generate_html, the per-node neighbor_list: TRUE when building it raises
NeighborListRaises(devs, nodes) ==
    \E i \in DOMAIN devs :
       /\ devs[i].ieee \in NodeIds(nodes)
       /\ \E k \in DOMAIN devs[i].neighbors :
             LqiIntRaises(devs[i].neighbors[k].lqi)

\* generate_visualization: generate_html raises before anything is written
GenerateHtmlRaises ==
    /\ pc = "hierarchy"
    /\ hierarchy.ok
    /\ NeighborListRaises(devices, hierarchy.nodes)
    /\ pc' = "error"
    /\ UNCHANGED <<devices, topology, hierarchy, device_primary_link,
                   device_paths, walk_steps, html_written>>
    /\ UNCHANGED <<server_vars, ws_vars>>

\* generate_visualization: generate_html(hierarchy, data, output_file)
GenerateHtml ==
    /\ pc = "hierarchy"
    /\ hierarchy.ok
    /\ ~NeighborListRaises(devices, hierarchy.nodes)
    /\ LET links == PrimaryLinks(devices, hierarchy)
           walks == DevicePaths(links, hierarchy)
       IN /\ device_primary_link' = links
          /\ device_paths' = [id \in DOMAIN walks |-> walks[id].path]
          /\ walk_steps' = [id \in DOMAIN walks |-> walks[id].steps]
    /\ html_written' = TRUE
    /\ pc' = "done"
    /\ UNCHANGED <<devices, topology, hierarchy>>
    /\ UNCHANGED <<server_vars, ws_vars>>

Next ==
    \/ ScanNeighbor
    \/ ExportAll
    \/ BuildHierarchy
    \/ RaiseNoHierarchy
    \/ GenerateHtml

Spec == Init /\ [][Next]_vars

NextRoute == Next \/ ScanRoute

SpecRoute == InitRoute /\ [][NextRoute]_vars

NextPath ==
    \/ ExportAll
    \/ BuildHierarchy
    \/ RaiseNoHierarchy
    \/ GenerateHtml

SpecPath == InitPath /\ [][NextPath]_vars

\* ---- a second run on the export of the first
\* a run whose collections start from those the run before it left
RegenerateOnLeftovers ==
    /\ pc = "done"
    /\ LET h == build_hierarchy(topology)
           kept == [h EXCEPT !.children =
                       [k \in DOMAIN h.children \cup DOMAIN hierarchy.children |->
                          (IF Has(hierarchy.children, k)
                           THEN hierarchy.children[k] ELSE <<>>)
                          \o (IF Has(h.children, k) THEN h.children[k] ELSE <<>>)]]
           links == PrimaryLinks(devices, kept)
           walks == DevicePaths(links, kept)
       IN /\ hierarchy' = kept
          /\ device_primary_link' = links
          /\ device_paths' = [id \in DOMAIN walks |-> walks[id].path]
          /\ walk_steps' = [id \in DOMAIN walks |-> walks[id].steps]
    /\ html_written' = TRUE
    /\ pc' = "regenerated"
    /\ UNCHANGED <<devices, topology>>
    /\ UNCHANGED <<server_vars, ws_vars>>

\* server.py handle_regenerate after a completed refresh: the latest export
\* is loaded again and generate_visualization builds everything anew
Regenerate ==
    /\ pc = "done"
    /\ LET h == build_hierarchy(topology)
           links == PrimaryLinks(devices, h)
           walks == DevicePaths(links, h)
       IN /\ h.ok
          /\ ~NeighborListRaises(devices, h.nodes)
          /\ hierarchy' = h
          /\ device_primary_link' = links
          /\ device_paths' = [id \in DOMAIN walks |-> walks[id].path]
          /\ walk_steps' = [id \in DOMAIN walks |-> walks[id].steps]
    /\ html_written' = TRUE
    /\ pc' = "regenerated"
    /\ UNCHANGED <<devices, topology>>
    /\ UNCHANGED <<server_vars, ws_vars>>

NextRegenerate == NextRoute \/ Regenerate

SpecRegenerate == InitRoute /\ [][NextRegenerate]_vars

\* ---- a scan whose devices and routes store their addresses in any form
\* the coordinator's address is the integer 0; every other device stores its
\* address as an integer, a 0x string or a decimal string
InitNwk ==
    /\ \E t \in TypeVectors(NumDevices, {"Router", "EndDevice"}) :
       \E form \in [1 .. NumDevices -> NwkForms] :
          /\ t[1] \in {"Coordinator"} \/ \A i \in 1 .. NumDevices : t[i] = "Router"
          /\ form[1] = "int"
          /\ devices = [i \in 1 .. NumDevices |-> Device(i, t[i], form[i])]
    /\ Idle

\* one routing-table entry towards the coordinator arrives with the scan, its
\* next hop stored in any form
ScanRouteForm ==
    /\ pc = "scan"
    /\ Records(devices) < MaxRecords
    /\ SumLen(devices, Len(devices), "routes") < MaxRoutes
    /\ \E i \in DOMAIN devices :
       \E hop \in {0} \cup {16 + j : j \in 2 .. Len(devices) + 1} :
       \E form \in NwkForms :
       \E status \in RouteStatuses :
          devices' = [devices EXCEPT ![i].routes =
                         Append(@, [dest_nwk |-> HexNwk(0),
                                    next_hop |-> StoreNwk(form, hop),
                                    route_status |-> status])]
    /\ UNCHANGED <<topology, hierarchy, device_primary_link, device_paths,
                   walk_steps, html_written, pc>>
    /\ UNCHANGED <<server_vars, ws_vars>>

NextNwk ==
    \/ ScanRouteForm
    \/ ExportAll
    \/ BuildHierarchy
    \/ RaiseNoHierarchy
    \/ GenerateHtml

SpecNwk == InitNwk /\ [][NextNwk]_vars

\* ---- a scan whose neighbor records carry any link quality
\* what a neighbor record can hold as lqi: 0, a valid value, a value above
\* the scale, a negative value, a string that is no number
RawLqis == {0, 1, LqiMax + 1, NegLqi, NonNumeric}

\* one neighbor-table entry of device i arrives with the scan
ScanNeighborRaw ==
    /\ pc = "scan"
    /\ Records(devices) < MaxRecords
    /\ \E i \in DOMAIN devices :
       \E target \in (1 .. Len(devices) + 1) \ {i} :
       \E lqi \in RawLqis :
       \E rel \in Relationships :
          devices' = [devices EXCEPT ![i].neighbors =
                         Append(@, [ieee |-> target,
                                    nwk |-> NeighborNwk(devices, target),
                                    lqi |-> lqi, relationship |-> rel])]
    /\ UNCHANGED <<topology, hierarchy, device_primary_link, device_paths,
                   walk_steps, html_written, pc>>
    /\ UNCHANGED <<server_vars, ws_vars>>

NextLqi ==
    \/ ScanNeighborRaw
    \/ ExportAll
    \/ BuildHierarchy
    \/ RaiseNoHierarchy
    \/ GenerateHtmlRaises
    \/ GenerateHtml

SpecLqi == InitRoute /\ [][NextLqi]_vars

\* ---- server.py: the refresh threads and the HTTP handlers
\* main() has started the initial refresh thread and, when auto refresh is
\* configured, the auto-refresh thread; the data directory holds any files
InitServer ==
    /\ devices = <<>>
    /\ topology = [nodes |-> <<>>, edges |-> <<>>]
    /\ hierarchy = NoHierarchy
    /\ device_primary_link = EmptyDict
    /\ device_paths = EmptyDict
    /\ walk_steps = EmptyDict
    /\ html_written = FALSE
    /\ pc = "scan"
    /\ WsIdle
    /\ refresh_lock = 0
    /\ is_refreshing = FALSE
    /\ refresh_error = None
    /\ last_refresh_time = 0
    /\ html_file \in {"absent", "present"}
    /\ export_file \in {"absent", "present"}
    /\ \E auto \in {"unstarted", "sleep"} :
          threads = [t \in ThreadIds |->
                       IF t = InitThread THEN "initial_refresh"
                       ELSE IF t = AutoThread THEN auto ELSE "unstarted"]
    /\ http = [pc |-> "idle", response |-> "none"]

\* an action of the server leaves the engine and the exporter alone
ServerFrame == UNCHANGED <<engine_vars, ws_vars>>

\* the positions of a thread inside do_refresh, and those inside the with
DoRefreshPcs == {"lock", "flag", "clear", "export", "export_failed", "generate",
                 "generate_failed", "writing", "stamp", "unflag", "unflag_error",
                 "return_true", "return_false"}

BodyPcs == DoRefreshPcs \ {"lock"}

\* the lock taken whether it is held or not
LockIgnored(lock) == TRUE

\* refresh_lock.acquire() goes through
LockFree(lock) == lock = 0

\* threading.Thread(target=do_refresh).start(): the thread that starts
FreeThreads == {t \in HttpThreads : threads[t] = "unstarted"}

NewThread == CHOOSE t \in FreeThreads : \A u \in FreeThreads : t <= u

\* initial_refresh: nothing to do with an HTML file; with an export file the
\* HTML is generated from it; else do_refresh
InitialCheck ==
    /\ threads[InitThread] = "initial_refresh"
    /\ threads' = [threads EXCEPT ![InitThread] =
                      IF html_file = "present" THEN "finished"
                      ELSE IF export_file = "present" THEN "initial_generate"
                      ELSE "lock"]
    /\ UNCHANGED <<refresh_lock, is_refreshing, refresh_error,
                   last_refresh_time, html_file, export_file, http>>
    /\ ServerFrame

\* initial_refresh: generate_visualization(latest) opens the HTML file for
\* writing, or raises and the thread goes on to do_refresh
InitialGenerate ==
    /\ threads[InitThread] = "initial_generate"
    /\ \/ /\ html_file' = "present"
          /\ threads' = [threads EXCEPT ![InitThread] = "initial_writing"]
       \/ /\ html_file' = html_file
          /\ threads' = [threads EXCEPT ![InitThread] = "lock"]
    /\ UNCHANGED <<refresh_lock, is_refreshing, refresh_error,
                   last_refresh_time, export_file, http>>
    /\ ServerFrame

InitialWritten ==
    /\ threads[InitThread] = "initial_writing"
    /\ threads' = [threads EXCEPT ![InitThread] = "finished"]
    /\ UNCHANGED <<refresh_lock, is_refreshing, refresh_error,
                   last_refresh_time, html_file, export_file, http>>
    /\ ServerFrame

\* auto_refresh_loop: after the sleep, do_refresh() if not is_refreshing
AutoTick ==
    /\ threads[AutoThread] = "sleep"
    /\ last_refresh_time < MaxRefreshTime
    /\ ~is_refreshing
    /\ threads' = [threads EXCEPT ![AutoThread] = "lock"]
    /\ UNCHANGED <<refresh_lock, is_refreshing, refresh_error,
                   last_refresh_time, html_file, export_file, http>>
    /\ ServerFrame

\* do_refresh: with refresh_lock
Acquire(t) ==
    /\ threads[t] = "lock"
    /\ LockFree(refresh_lock)
    /\ refresh_lock' = t
    /\ threads' = [threads EXCEPT ![t] = "flag"]
    /\ UNCHANGED <<is_refreshing, refresh_error, last_refresh_time,
                   html_file, export_file, http>>
    /\ ServerFrame

\* do_refresh: is_refreshing = True
SetRefreshing(t) ==
    /\ threads[t] = "flag"
    /\ is_refreshing' = TRUE
    /\ threads' = [threads EXCEPT ![t] = "clear"]
    /\ UNCHANGED <<refresh_lock, refresh_error, last_refresh_time,
                   html_file, export_file, http>>
    /\ ServerFrame

\* do_refresh: refresh_error = None
ClearError(t) ==
    /\ threads[t] = "clear"
    /\ refresh_error' = None
    /\ threads' = [threads EXCEPT ![t] = "export"]
    /\ UNCHANGED <<refresh_lock, is_refreshing, last_refresh_time,
                   html_file, export_file, http>>
    /\ ServerFrame

\* do_refresh: export_data() writes a new export file, or raises
Export(t) ==
    /\ threads[t] = "export"
    /\ \/ /\ export_file' = "present"
          /\ threads' = [threads EXCEPT ![t] = "generate"]
       \/ /\ export_file' = export_file
          /\ threads' = [threads EXCEPT ![t] = "export_failed"]
    /\ UNCHANGED <<refresh_lock, is_refreshing, refresh_error,
                   last_refresh_time, html_file, http>>
    /\ ServerFrame

\* do_refresh: generate_visualization(json_file) opens the HTML file for
\* writing, or raises before it
Generate(t) ==
    /\ threads[t] = "generate"
    /\ \/ /\ html_file' = "present"
          /\ threads' = [threads EXCEPT ![t] = "writing"]
       \/ /\ html_file' = html_file
          /\ threads' = [threads EXCEPT ![t] = "generate_failed"]
    /\ UNCHANGED <<refresh_lock, is_refreshing, refresh_error,
                   last_refresh_time, export_file, http>>
    /\ ServerFrame

\* generate_html: the HTML is written and the file closed
Written(t) ==
    /\ threads[t] = "writing"
    /\ threads' = [threads EXCEPT ![t] = "stamp"]
    /\ UNCHANGED <<refresh_lock, is_refreshing, refresh_error,
                   last_refresh_time, html_file, export_file, http>>
    /\ ServerFrame

\* do_refresh: last_refresh_time = time.time()
Stamp(t) ==
    /\ threads[t] = "stamp"
    /\ last_refresh_time' = last_refresh_time + 1
    /\ threads' = [threads EXCEPT ![t] = "unflag"]
    /\ UNCHANGED <<refresh_lock, is_refreshing, refresh_error,
                   html_file, export_file, http>>
    /\ ServerFrame

\* do_refresh, except Exception: refresh_error = error_msg
SetError(t) ==
    /\ threads[t] \in {"export_failed", "generate_failed"}
    /\ refresh_error' = IF threads[t] = "export_failed" THEN ExportError
                        ELSE GenerateError
    /\ threads' = [threads EXCEPT ![t] = "unflag_error"]
    /\ UNCHANGED <<refresh_lock, is_refreshing, last_refresh_time,
                   html_file, export_file, http>>
    /\ ServerFrame

\* the flag reset on the way out of the try only, not in the except
UnflagOnSuccessOnly(t) ==
    /\ threads[t] \in {"unflag", "unflag_error"}
    /\ is_refreshing' = (threads[t] = "unflag_error")
    /\ threads' = [threads EXCEPT ![t] =
                      IF threads[t] = "unflag" THEN "return_true"
                      ELSE "return_false"]
    /\ UNCHANGED <<refresh_lock, refresh_error, last_refresh_time,
                   html_file, export_file, http>>
    /\ ServerFrame

\* do_refresh: is_refreshing = False, on either way out
Unflag(t) ==
    /\ threads[t] \in {"unflag", "unflag_error"}
    /\ is_refreshing' = FALSE
    /\ threads' = [threads EXCEPT ![t] =
                      IF threads[t] = "unflag" THEN "return_true"
                      ELSE "return_false"]
    /\ UNCHANGED <<refresh_lock, refresh_error, last_refresh_time,
                   html_file, export_file, http>>
    /\ ServerFrame

\* do_refresh: the return leaves the with and releases the lock; the
\* auto-refresh loop sleeps again, any other thread ends
Release(t) ==
    /\ threads[t] \in {"return_true", "return_false"}
    /\ refresh_lock' = 0
    /\ threads' = [threads EXCEPT ![t] =
                      IF t = AutoThread THEN "sleep" ELSE "finished"]
    /\ UNCHANGED <<is_refreshing, refresh_error, last_refresh_time,
                   html_file, export_file, http>>
    /\ ServerFrame

\* the steps of do_refresh in thread t
DoRefresh(t) ==
    \/ Acquire(t) \/ SetRefreshing(t) \/ ClearError(t) \/ Export(t)
    \/ Generate(t) \/ Written(t) \/ Stamp(t) \/ SetError(t)
    \/ Unflag(t) \/ Release(t)

\* the HTTP server takes one request at a time: POST /refresh
AcceptRefresh ==
    /\ http.pc = "idle"
    /\ FreeThreads # {}
    /\ http' = [http EXCEPT !.pc = "handle_refresh"]
    /\ UNCHANGED <<refresh_lock, is_refreshing, refresh_error,
                   last_refresh_time, html_file, export_file, threads>>
    /\ ServerFrame

\* handle_refresh: if is_refreshing: 'Refresh already in progress'
RefreshCheck ==
    /\ http.pc = "handle_refresh"
    /\ http' = IF is_refreshing
               THEN [pc |-> "idle", response |-> "in_progress"]
               ELSE [http EXCEPT !.pc = "refresh_start"]
    /\ UNCHANGED <<refresh_lock, is_refreshing, refresh_error,
                   last_refresh_time, html_file, export_file, threads>>
    /\ ServerFrame

\* handle_refresh: thread.start(), 'Refresh started'
RefreshStart ==
    /\ http.pc = "refresh_start"
    /\ threads' = [threads EXCEPT ![NewThread] = "lock"]
    /\ http' = [pc |-> "idle", response |-> "started"]
    /\ UNCHANGED <<refresh_lock, is_refreshing, refresh_error,
                   last_refresh_time, html_file, export_file>>
    /\ ServerFrame

\* GET /
AcceptGet ==
    /\ http.pc = "idle"
    /\ FreeThreads # {} \/ html_file = "present"
    /\ http' = [http EXCEPT !.pc = "serve_html"]
    /\ UNCHANGED <<refresh_lock, is_refreshing, refresh_error,
                   last_refresh_time, html_file, export_file, threads>>
    /\ ServerFrame

\* serve_html: if is_refreshing: the loading page
GetCheck ==
    /\ http.pc = "serve_html"
    /\ http' = IF is_refreshing
               THEN [pc |-> "idle", response |-> "loading"]
               ELSE [http EXCEPT !.pc = "error_check"]
    /\ UNCHANGED <<refresh_lock, is_refreshing, refresh_error,
                   last_refresh_time, html_file, export_file, threads>>
    /\ ServerFrame

\* serve_html: the error page for a refresh error without HTML file; else
\* the branch for a missing file or the one for an existing file
GetErrorCheck ==
    /\ http.pc = "error_check"
    /\ http' = IF refresh_error # None /\ html_file = "absent"
               THEN [pc |-> "idle", response |-> "error"]
               ELSE IF html_file = "absent"
               THEN [http EXCEPT !.pc = "missing"]
               ELSE [http EXCEPT !.pc = "auto_regenerate"]
    /\ UNCHANGED <<refresh_lock, is_refreshing, refresh_error,
                   last_refresh_time, html_file, export_file, threads>>
    /\ ServerFrame

\* serve_html, no HTML file: with an export file generate_visualization
\* opens the HTML file for writing, or raises
GetMissing ==
    /\ http.pc = "missing"
    /\ \/ /\ export_file = "present"
          /\ html_file' = "present"
          /\ http' = [http EXCEPT !.pc = "missing_writing"]
       \/ /\ html_file' = html_file
          /\ http' = [http EXCEPT !.pc = "still_missing"]
    /\ UNCHANGED <<refresh_lock, is_refreshing, refresh_error,
                   last_refresh_time, export_file, threads>>
    /\ ServerFrame

GetMissingWritten ==
    /\ http.pc = "missing_writing"
    /\ http' = [http EXCEPT !.pc = "still_missing"]
    /\ UNCHANGED <<refresh_lock, is_refreshing, refresh_error,
                   last_refresh_time, html_file, export_file, threads>>
    /\ ServerFrame

\* serve_html: if still no HTML file, the loading page
GetStillMissing ==
    /\ http.pc = "still_missing"
    /\ http' = IF html_file = "absent"
               THEN [pc |-> "trigger", response |-> "loading"]
               ELSE [http EXCEPT !.pc = "auto_regenerate"]
    /\ UNCHANGED <<refresh_lock, is_refreshing, refresh_error,
                   last_refresh_time, html_file, export_file, threads>>
    /\ ServerFrame

\* serve_html: if not is_refreshing: thread.start()
GetTrigger ==
    /\ http.pc = "trigger"
    /\ threads' = IF is_refreshing THEN threads
                  ELSE [threads EXCEPT ![NewThread] = "lock"]
    /\ http' = [http EXCEPT !.pc = "idle"]
    /\ UNCHANGED <<refresh_lock, is_refreshing, refresh_error,
                   last_refresh_time, html_file, export_file>>
    /\ ServerFrame

\* serve_html, with an HTML file: generate_visualization(latest) on every
\* page load opens the HTML file for writing, or raises, or there is no
\* export file
GetRegenerate ==
    /\ http.pc = "auto_regenerate"
    /\ \/ /\ export_file = "present"
          /\ http' = [http EXCEPT !.pc = "regenerate_writing"]
       \/ http' = [http EXCEPT !.pc = "read"]
    /\ UNCHANGED <<refresh_lock, is_refreshing, refresh_error,
                   last_refresh_time, html_file, export_file, threads>>
    /\ ServerFrame

GetRegenerateWritten ==
    /\ http.pc = "regenerate_writing"
    /\ http' = [http EXCEPT !.pc = "read"]
    /\ UNCHANGED <<refresh_lock, is_refreshing, refresh_error,
                   last_refresh_time, html_file, export_file, threads>>
    /\ ServerFrame

\* serve_html: with open(HTML_FILE): content = f.read()
GetRead ==
    /\ http.pc = "read"
    /\ http' = [http EXCEPT !.pc = "reading"]
    /\ UNCHANGED <<refresh_lock, is_refreshing, refresh_error,
                   last_refresh_time, html_file, export_file, threads>>
    /\ ServerFrame

\* serve_html: the content is sent
GetRespond ==
    /\ http.pc = "reading"
    /\ http' = [pc |-> "idle", response |-> "html"]
    /\ UNCHANGED <<refresh_lock, is_refreshing, refresh_error,
                   last_refresh_time, html_file, export_file, threads>>
    /\ ServerFrame

NextServer ==
    \/ InitialCheck
    \/ InitialGenerate
    \/ InitialWritten
    \/ AutoTick
    \/ \E t \in ThreadIds : Acquire(t)
    \/ \E t \in ThreadIds : SetRefreshing(t)
    \/ \E t \in ThreadIds : ClearError(t)
    \/ \E t \in ThreadIds : Export(t)
    \/ \E t \in ThreadIds : Generate(t)
    \/ \E t \in ThreadIds : Written(t)
    \/ \E t \in ThreadIds : Stamp(t)
    \/ \E t \in ThreadIds : SetError(t)
    \/ \E t \in ThreadIds : Unflag(t)
    \/ \E t \in ThreadIds : Release(t)
    \/ AcceptRefresh
    \/ RefreshCheck
    \/ RefreshStart
    \/ AcceptGet
    \/ GetCheck
    \/ GetErrorCheck
    \/ GetMissing
    \/ GetMissingWritten
    \/ GetStillMissing
    \/ GetTrigger
    \/ GetRegenerate
    \/ GetRegenerateWritten
    \/ GetRead
    \/ GetRespond

SpecServer == InitServer /\ [][NextServer]_vars

\* the refresh threads and their triggers alone: the initial refresh, the
\* auto-refresh loop and POST /refresh
NextRefresh ==
    \/ InitialCheck
    \/ InitialGenerate
    \/ InitialWritten
    \/ AutoTick
    \/ \E t \in ThreadIds : Acquire(t)
    \/ \E t \in ThreadIds : SetRefreshing(t)
    \/ \E t \in ThreadIds : ClearError(t)
    \/ \E t \in ThreadIds : Export(t)
    \/ \E t \in ThreadIds : Generate(t)
    \/ \E t \in ThreadIds : Written(t)
    \/ \E t \in ThreadIds : Stamp(t)
    \/ \E t \in ThreadIds : SetError(t)
    \/ \E t \in ThreadIds : Unflag(t)
    \/ \E t \in ThreadIds : Release(t)
    \/ AcceptRefresh
    \/ RefreshCheck
    \/ RefreshStart

\* every thread that can take a step of do_refresh takes it in the end: the
\* export and the generation end (every wait of the exporter has a timeout),
\* and a thread that waits for the lock gets it after some release
SpecRefreshFair ==
    /\ InitServer
    /\ [][NextRefresh]_vars
    /\ \A t \in ThreadIds :
          /\ SF_vars(Acquire(t))
          /\ WF_vars(SetRefreshing(t) \/ ClearError(t) \/ Export(t)
                        \/ Generate(t) \/ Written(t) \/ Stamp(t)
                        \/ SetError(t) \/ Unflag(t) \/ Release(t))

\* ---- main.py: ZHAExporter.ws_command
\* an exporter on an open socket, no command sent yet
InitWs ==
    /\ devices = <<>>
    /\ Idle

WsFrame == UNCHANGED <<engine_vars, server_vars>>

\* the messages the server can send: a result or an event, carrying the id of
\* a command sent so far or none
ServerMessages ==
    [id : {None} \cup 1 .. msg_id, type : {"result", "event"}]

\* the return value for a timeout
TimeoutResult == [kind |-> "timeout"]

\* any result taken as the response
AnyResult(msg, id) == msg.type = "result"

\* if msg.get("id") == msg_id
IsOurResponse(msg, id) == msg.id = id

\* ws_command: msg_id = self.next_id(); command["id"] = msg_id; send_json
WsSend ==
    /\ ws_call.pc \in {"idle", "returned", "raised"}
    /\ msg_id < MaxCommands
    /\ msg_id' = msg_id + 1
    /\ ws_call' = [pc |-> "waiting", id |-> msg_id + 1, skipped |-> {}]
    /\ ws_result' = [kind |-> "none"]
    /\ UNCHANGED ws_inbox
    /\ WsFrame

\* ws_command: send_json raises and the exception leaves ws_command
WsSendRaises ==
    /\ ws_call.pc \in {"idle", "returned", "raised"}
    /\ msg_id < MaxCommands
    /\ msg_id' = msg_id + 1
    /\ ws_call' = [pc |-> "raised", id |-> msg_id + 1, skipped |-> {}]
    /\ ws_result' = [kind |-> "none"]
    /\ UNCHANGED ws_inbox
    /\ WsFrame

\* the server puts a message on the socket
ServerSend ==
    /\ msg_id >= 1
    /\ Len(ws_inbox) < MaxInbox
    /\ \E m \in ServerMessages : ws_inbox' = Append(ws_inbox, m)
    /\ UNCHANGED <<msg_id, ws_call, ws_result>>
    /\ WsFrame

\* ws_command: one turn of the loop with a message received: the response
\* is returned, anything else is passed over
WsReceive ==
    /\ ws_call.pc = "waiting"
    /\ ws_inbox # <<>>
    /\ ws_inbox' = Tail(ws_inbox)
    /\ IF IsOurResponse(Head(ws_inbox), ws_call.id)
       THEN /\ ws_result' = [kind |-> "message", msg |-> Head(ws_inbox)]
            /\ ws_call' = [ws_call EXCEPT !.pc = "returned"]
       ELSE /\ ws_result' = ws_result
            /\ ws_call' = [ws_call EXCEPT
                             !.skipped = @ \cup {Head(ws_inbox).id}]
    /\ UNCHANGED msg_id
    /\ WsFrame

\* ws_command: the time is up: {"success": False, "error": "timeout"}
WsTimeout ==
    /\ ws_call.pc = "waiting"
    /\ ws_result' = TimeoutResult
    /\ ws_call' = [ws_call EXCEPT !.pc = "returned"]
    /\ UNCHANGED <<msg_id, ws_inbox>>
    /\ WsFrame

NextWs ==
    \/ WsSend
    \/ WsSendRaises
    \/ ServerSend
    \/ WsReceive
    \/ WsTimeout

SpecWs == InitWs /\ [][NextWs]_vars

\* ======================================================================
\* Properties
\* ======================================================================
Built == pc \in {"hierarchy", "done"} /\ hierarchy.ok

NoCoordinator ==
    \A i \in DOMAIN devices : devices[i].device_type # "Coordinator"

\* the places <<parent, index>> of the children map that hold device id
ChildSlots(children, id) ==
    {s \in UNION {{<<p, i>> : i \in DOMAIN children[p]} : p \in DOMAIN children} :
        children[s[1]][s[2]][1] = id}

ChildIds(children) ==
    UNION {{children[p][i][1] : i \in DOMAIN children[p]} : p \in DOMAIN children}

\* C1: with a coordinator, build_hierarchy puts every other device in exactly
\* one place of exactly one children list and the coordinator in none; the
\* children together with the coordinator are the device set.
C1_EveryDeviceInOneSlot ==
    Built =>
       /\ \A id \in DeviceIds(devices) :
             Cardinality(ChildSlots(hierarchy.children, id))
                = IF id = hierarchy.coordinator THEN 0 ELSE 1
       /\ ChildIds(hierarchy.children) \cup {hierarchy.coordinator}
             = DeviceIds(devices)

\* a hierarchy with a device attached below a device that is not the
\* coordinator, and a device of unknown type attached as an orphan
C1_Witness ==
    /\ Built
    /\ \E p \in DOMAIN hierarchy.children : p # hierarchy.coordinator
    /\ \E i \in DOMAIN devices :
          /\ devices[i].device_type = "Unknown"
          /\ ChildSlots(hierarchy.children, devices[i].ieee)
                = {s \in ChildSlots(hierarchy.children, devices[i].ieee) :
                     s[1] = hierarchy.coordinator}

\* the devices reached from a set of devices by following the children map
RECURSIVE Reach(_, _)
Reach(children, set) ==
    LET next == set \cup
                UNION {{children[p][i][1] : i \in DOMAIN children[p]} :
                         p \in set \cap DOMAIN children}
    IN IF next = set THEN set ELSE Reach(children, next)

\* every neighbor record is a report of a router or the coordinator about a
\* router or the coordinator
ReportsBetweenRouters ==
    \A i \in DOMAIN devices : \A k \in DOMAIN devices[i].neighbors :
       /\ devices[i].device_type \in RouterTypes
       /\ devices[i].neighbors[k].ieee \in DeviceIds(devices)
       /\ NodeType(topology.nodes, devices[i].neighbors[k].ieee) \in RouterTypes

\* C2: with a coordinator, whatever routers report about each other as
\* Parent or Child, every device is reached from the coordinator through
\* the children map (so the parent assignment has no cycle).
C2_AllReachedFromCoordinator ==
    (Built /\ ReportsBetweenRouters) =>
       DeviceIds(devices)
          \subseteq Reach(hierarchy.children, {hierarchy.coordinator})

\* C8: without a coordinator build_hierarchy gives no hierarchy, the only
\* step left is the raise of generate_visualization, and neither the primary
\* links nor the paths are computed nor is the HTML written.
C8_NoCoordinatorAborts ==
    NoCoordinator =>
       /\ pc # "done"
       /\ ~html_written
       /\ device_primary_link = EmptyDict
       /\ device_paths = EmptyDict
       /\ pc \in {"hierarchy", "error"} => hierarchy = NoHierarchy
       /\ pc = "hierarchy" => ENABLED RaiseNoHierarchy

\* a run without coordinator that ended in the raise, with neighbor reports
C8_Witness ==
    /\ NoCoordinator
    /\ pc = "error"
    /\ topology.edges # <<>>

LinkTargets(links) == {links[id].target : id \in DOMAIN links}

\* C9: no parent key of the children map and no primary-link target is an
\* identity outside the device set.
C9_NoUnknownIdentity ==
    Built =>
       /\ DOMAIN hierarchy.children \subseteq DeviceIds(devices)
       /\ LinkTargets(device_primary_link) \subseteq DeviceIds(devices)

\* ---- the primary-link cascade
Linked == pc = "done"

NonCoordinators == DeviceIds(devices) \ {hierarchy.coordinator}

DeviceOf(id) == devices[CHOOSE i \in DOMAIN devices : devices[i].ieee = id]

\* C3: after the cascade every device but the coordinator has its primary
\* link (the map holds one link per key), whatever routes and neighbor
\* reports the snapshot holds.
C3_EveryDeviceHasItsLink ==
    Linked =>
       \A id \in NonCoordinators :
          /\ Has(device_primary_link, id)
          /\ device_primary_link[id].source_type
                \in {"route", "parent", "neighbor", "fallback"}

\* a snapshot with a route and a neighbor report, one device linked by its
\* route and another by the fallback
C3_Witness ==
    /\ Linked
    /\ \E a, b \in NonCoordinators :
          /\ device_primary_link[a].source_type = "route"
          /\ device_primary_link[b].source_type = "fallback"
    /\ topology.edges # <<>>

\* C4: the coordinator never has a primary link.
C4_CoordinatorHasNoLink ==
    Linked => ~Has(device_primary_link, hierarchy.coordinator)

\* the evidence of each rule of the cascade, for device d
RouteEvidence(d) ==
    \E i \in DOMAIN d.routes :
       RouteUsable(d.routes[i], NwkToIeee(devices, Len(devices)),
                   hierarchy.coordinator, hierarchy.nodes)

ParentEvidence(d) ==
    \E k \in DOMAIN d.neighbors :
       /\ d.neighbors[k].relationship = "Parent"
       /\ d.neighbors[k].ieee \in DeviceIds(devices)

InboundChildEvidence(d) ==
    \E i \in DOMAIN devices :
       /\ devices[i].ieee # d.ieee
       /\ devices[i].device_type \in RouterTypes
       /\ \E k \in DOMAIN devices[i].neighbors :
             /\ devices[i].neighbors[k].ieee = d.ieee
             /\ devices[i].neighbors[k].relationship = "Child"

OwnNeighborEvidence(d) ==
    \E k \in DOMAIN d.neighbors :
       /\ d.neighbors[k].ieee \in DeviceIds(devices)
       /\ d.device_type = "EndDevice" =>
             DeviceOf(d.neighbors[k].ieee).device_type \in RouterTypes

\* the source type of the first rule with evidence; inboundType is the
\* source type of the inbound-Child rule
FirstRuleType(d, inboundType) ==
    IF RouteEvidence(d) THEN "route"
    ELSE IF ParentEvidence(d) THEN "parent"
    ELSE IF InboundChildEvidence(d) THEN inboundType
    ELSE IF OwnNeighborEvidence(d) THEN "neighbor"
    ELSE "fallback"

\* C5 as stated: the source type of a device's primary link is that of the
\* first rule with evidence, in the order route, parent, inbound Child report
\* (source type neighbor), own neighbor (neighbor), fallback.
C5_SourceTypeOfFirstRule ==
    Linked =>
       \A id \in NonCoordinators :
          device_primary_link[id].source_type
             = FirstRuleType(DeviceOf(id), "neighbor")

\* C5 amended: as above, but a link decided by an inbound Child report has
\* source type parent.
C5_SourceTypeOfFirstRuleAmended ==
    Linked =>
       \A id \in NonCoordinators :
          device_primary_link[id].source_type
             = FirstRuleType(DeviceOf(id), "parent")

\* a device with an inbound Child report and an own neighbor entry (two rules
\* with evidence) whose link the inbound report decides
C5_Witness ==
    /\ Linked
    /\ \E id \in NonCoordinators :
          /\ ~RouteEvidence(DeviceOf(id))
          /\ ~ParentEvidence(DeviceOf(id))
          /\ InboundChildEvidence(DeviceOf(id))
          /\ OwnNeighborEvidence(DeviceOf(id))
          /\ device_primary_link[id].source_type = "parent"

\* the first usable route of d whose next hop the nwk index resolves
FirstUsableRoute(d) ==
    CHOOSE i \in DOMAIN d.routes :
       /\ RouteUsable(d.routes[i], NwkToIeee(devices, Len(devices)),
                      hierarchy.coordinator, hierarchy.nodes)
       /\ \A j \in 1 .. i - 1 :
             ~RouteUsable(d.routes[j], NwkToIeee(devices, Len(devices)),
                          hierarchy.coordinator, hierarchy.nodes)

\* the own neighbor entries of d that match hop by address or by identity
MatchingEntries(d, hopNwk, hop) ==
    {k \in DOMAIN d.neighbors :
        \/ nwk_to_int(d.neighbors[k].nwk) = hopNwk
        \/ d.neighbors[k].ieee = hop}

\* C10: a device with a usable route to address 0 whose next hop resolves to
\* the known device H has the primary link {H, lqi, route}, lqi being that of
\* its first own neighbor entry matching H (0 without one), a Parent entry
\* naming another device notwithstanding.
C10_RouteDecidesLink ==
    Linked =>
       \A id \in NonCoordinators :
          RouteEvidence(DeviceOf(id)) =>
             LET d == DeviceOf(id)
                 r == d.routes[FirstUsableRoute(d)]
                 hopNwk == nwk_to_int(r.next_hop)
                 H == IF hopNwk = 0 THEN hierarchy.coordinator
                      ELSE CHOOSE h \in DeviceIds(devices) :
                              DeviceOf(h).nwk = IntNwk(hopNwk)
                 m == MatchingEntries(d, hopNwk, H)
                 lqi == IF m = {} THEN 0
                        ELSE d.neighbors[CHOOSE k \in m :
                                            \A j \in m : k <= j].lqi
             IN device_primary_link[id] = Link(H, lqi, "route")

\* a device linked by its route to a router, although its one neighbor
\* entry names the coordinator as Parent
C10_Witness ==
    /\ Linked
    /\ \E id \in NonCoordinators :
          /\ device_primary_link[id].source_type = "route"
          /\ device_primary_link[id].target # hierarchy.coordinator
          /\ \E k \in DOMAIN DeviceOf(id).neighbors :
                /\ DeviceOf(id).neighbors[k].relationship = "Parent"
                /\ DeviceOf(id).neighbors[k].ieee \in DeviceIds(devices)
                /\ DeviceOf(id).neighbors[k].ieee
                      # device_primary_link[id].target

\* a device linked by its route with the lqi of its matching neighbor entry
C10_WitnessLqi ==
    /\ Linked
    /\ \E id \in NonCoordinators :
          /\ device_primary_link[id].source_type = "route"
          /\ device_primary_link[id].lqi > 0

\* ---- the path to the coordinator
PathIds(path) == {path[k].id : k \in DOMAIN path}

\* C6: no path to the coordinator holds the same device twice.
C6_NoRepeatedDeviceInPath ==
    Linked =>
       \A id \in DOMAIN device_paths :
          Cardinality(PathIds(device_paths[id])) = Len(device_paths[id])

\* the device a walk stands on before its k-th hop
Before(id, path, k) == IF k = 1 THEN id ELSE path[k - 1].id

\* C7: every walk ends after at most as many steps as there are devices and
\* returns the hops made so far: each hop is the primary link of the device
\* before it, also when the links form a cycle.
C7_WalkEndsWithPartialPath ==
    Linked =>
       \A id \in DOMAIN device_paths :
          /\ walk_steps[id] <= Len(devices)
          /\ Len(device_paths[id]) <= walk_steps[id]
          /\ \A k \in DOMAIN device_paths[id] :
                LET link == device_primary_link[Before(id, device_paths[id], k)]
                IN /\ device_paths[id][k].id = link.target
                   /\ device_paths[id][k].lqi = link.lqi

\* a walk on a cycle of primary links: it stopped on a device it had
\* visited, short of the coordinator
C7_Witness ==
    /\ Linked
    /\ \E id \in DOMAIN device_paths :
          /\ Len(device_paths[id]) >= 2
          /\ device_paths[id][Len(device_paths[id])].id # hierarchy.coordinator

\* ---- the resolution of a next hop
\* the device a normalized address names: the coordinator for 0, else the
\* device whose stored address normalizes to it; 0 if there is none
DeviceAtNwk(n) ==
    IF n = 0 THEN hierarchy.coordinator
    ELSE IF \E i \in DOMAIN devices : nwk_to_int(devices[i].nwk) = n
    THEN devices[CHOOSE i \in DOMAIN devices :
                    nwk_to_int(devices[i].nwk) = n].ieee
    ELSE 0

\* the routes of d to address 0 with a valid status whose normalized next hop
\* names a known device
RoutesToKnownHop(d) ==
    {i \in DOMAIN d.routes :
        /\ d.routes[i].route_status \in valid_route_statuses
        /\ nwk_to_int(d.routes[i].dest_nwk) = 0
        /\ nwk_to_int(d.routes[i].next_hop) # None
        /\ DeviceAtNwk(nwk_to_int(d.routes[i].next_hop)) # 0}

\* C11: the next hop of a device's first route to address 0 resolves to the
\* device whose address, normalized to an integer, equals the normalized
\* next hop, whatever form the two are stored in, and 0 resolves to the
\* coordinator: the device's primary link is the route link to that device.
C11_NextHopResolvesInAnyForm ==
    Linked =>
       \A id \in NonCoordinators :
          LET d == DeviceOf(id)
              r == RoutesToKnownHop(d)
          IN r # {} =>
                LET first == CHOOSE i \in r : \A j \in r : i <= j
                IN /\ device_primary_link[id].source_type = "route"
                   /\ device_primary_link[id].target
                         = DeviceAtNwk(nwk_to_int(d.routes[first].next_hop))

\* ---- the inbound-Child rule
\* the Child reports about device id: <<i, k>> is entry k of the neighbor
\* list of device i, a Router or the Coordinator other than id
InboundReports(id) ==
    {r \in UNION {{<<i, k>> : k \in DOMAIN devices[i].neighbors} :
                     i \in DOMAIN devices} :
        /\ devices[r[1]].ieee # id
        /\ devices[r[1]].device_type \in RouterTypes
        /\ devices[r[1]].neighbors[r[2]].ieee = id
        /\ devices[r[1]].neighbors[r[2]].relationship = "Child"}

ReportLqi(r) == devices[r[1]].neighbors[r[2]].lqi

\* r comes before q in the order the reports are encountered
Earlier(r, q) == r[1] < q[1] \/ (r[1] = q[1] /\ r[2] <= q[2])

\* the first encountered among the reports of highest lqi
StrongestReport(id) ==
    CHOOSE r \in InboundReports(id) :
       \A q \in InboundReports(id) :
          \/ ReportLqi(q) < ReportLqi(r)
          \/ (ReportLqi(q) = ReportLqi(r) /\ Earlier(r, q))

\* the link the inbound-Child rule gives device id, with its source type
InboundLink(id, source_type) ==
    Link(devices[StrongestReport(id)[1]].ieee,
         ReportLqi(StrongestReport(id)), source_type)

UnlinkedBeforeInbound(id) ==
    /\ ~RouteEvidence(DeviceOf(id))
    /\ ~ParentEvidence(DeviceOf(id))
    /\ InboundReports(id) # {}

\* C12 as stated: a device without route-derived and parent-derived link that
\* a Router or the Coordinator reports as Child is linked to the reporter of
\* the highest-lqi report (the first on ties) with that lqi and source type
\* neighbor.
C12_InboundChildLinkNeighbor ==
    Linked =>
       \A id \in NonCoordinators :
          UnlinkedBeforeInbound(id) =>
             device_primary_link[id] = InboundLink(id, "neighbor")

\* C12 amended: as above, with source type parent.
C12_InboundChildLinkParent ==
    Linked =>
       \A id \in NonCoordinators :
          UnlinkedBeforeInbound(id) =>
             device_primary_link[id] = InboundLink(id, "parent")

\* a device two reporters report as Child with the same lqi, linked to the
\* first of them
C12_Witness ==
    /\ Linked
    /\ \E id \in NonCoordinators :
          /\ UnlinkedBeforeInbound(id)
          /\ \E r, q \in InboundReports(id) :
                /\ r[1] < q[1]
                /\ ReportLqi(r) = ReportLqi(q)
                /\ device_primary_link[id].target = devices[r[1]].ieee

\* ---- the parent rule
\* the own neighbor entries of d marked Parent that name a known device
ParentEntries(d) ==
    {k \in DOMAIN d.neighbors :
        /\ d.neighbors[k].relationship = "Parent"
        /\ d.neighbors[k].ieee \in DeviceIds(devices)}

\* C13: a device without a route-derived link whose own neighbor list has an
\* entry marked Parent naming a known device is linked to the device of the
\* first such entry, with that entry's lqi and source type parent, a later
\* Parent entry of higher lqi notwithstanding.
C13_FirstParentEntryDecides ==
    Linked =>
       \A id \in NonCoordinators :
          LET d == DeviceOf(id)
              P == ParentEntries(d)
          IN (~RouteEvidence(d) /\ P # {}) =>
                LET first == CHOOSE k \in P : \A j \in P : k <= j
                IN device_primary_link[id]
                      = Link(d.neighbors[first].ieee, d.neighbors[first].lqi,
                             "parent")

\* a device with two Parent entries naming different devices, the second of
\* higher lqi, linked to the device of the first
C13_Witness ==
    /\ Linked
    /\ \E id \in NonCoordinators :
          LET d == DeviceOf(id)
          IN /\ ~RouteEvidence(d)
             /\ \E j, k \in ParentEntries(d) :
                   /\ j < k
                   /\ d.neighbors[j].lqi < d.neighbors[k].lqi
                   /\ d.neighbors[j].ieee # d.neighbors[k].ieee
                   /\ device_primary_link[id].target = d.neighbors[j].ieee

\* ---- the device nobody knows anything about
\* some device reports id as its Child
ReportedAsChild(id) ==
    \E i \in DOMAIN devices : \E k \in DOMAIN devices[i].neighbors :
       /\ devices[i].neighbors[k].ieee = id
       /\ devices[i].neighbors[k].relationship = "Child"

\* no neighbor reports of its own, no routes, no inbound Child report
NoEvidence(id) ==
    /\ DeviceOf(id).neighbors = <<>>
    /\ DeviceOf(id).routes = <<>>
    /\ ~ReportedAsChild(id)

\* id is a child of the coordinator and of nobody else
UnderCoordinator(id) ==
    /\ ChildSlots(hierarchy.children, id) # {}
    /\ \A s \in ChildSlots(hierarchy.children, id) :
          s[1] = hierarchy.coordinator

NamedByRouter(id) ==
    \E i \in DOMAIN devices : \E k \in DOMAIN devices[i].neighbors :
       /\ devices[i].device_type = "Router"
       /\ devices[i].neighbors[k].ieee = id
       /\ devices[i].neighbors[k].lqi > 0

Exported == pc = "exported"

\* every identity a report can name
AllIds == 1 .. Len(devices) + 1

\* the lqi of the reports of the pair a, b, in either direction
PairLqis(a, b) ==
    {topology.edges[n].lqi : n \in {m \in DOMAIN topology.edges :
        \/ topology.edges[m].source = a /\ topology.edges[m].target = b
        \/ topology.edges[m].source = b /\ topology.edges[m].target = a}}

\* C15: get_link_lqi(A, B) = get_link_lqi(B, A), and the value is the
\* greatest lqi among the reports of the pair in either direction, 0 when
\* the pair has no report.
C15_LinkLqiSymmetricMax ==
    Exported =>
       \A a, b \in AllIds :
          /\ get_link_lqi(topology.edges, a, b)
                = get_link_lqi(topology.edges, b, a)
          /\ get_link_lqi(topology.edges, a, b)
                = IF PairLqis(a, b) = {} THEN 0
                  ELSE CHOOSE x \in PairLqis(a, b) :
                          \A y \in PairLqis(a, b) : y <= x

\* a pair reported in both directions, the later report the weaker one
C15_Witness ==
    /\ Exported
    /\ \E m, n \in DOMAIN topology.edges :
          /\ m < n
          /\ topology.edges[m].source = topology.edges[n].target
          /\ topology.edges[m].target = topology.edges[n].source
          /\ topology.edges[m].lqi > topology.edges[n].lqi
          /\ get_link_lqi(topology.edges, topology.edges[n].source,
                          topology.edges[n].target) = topology.edges[m].lqi

\* ---- the path along a chain of primary links
\* the chain of primary links from cur: ok if it reaches the coordinator
\* without coming to a device twice, with the hops <<target, lqi>> it makes
RECURSIVE Chain(_, _)
Chain(cur, seen) ==
    IF cur = hierarchy.coordinator THEN [ok |-> TRUE, hops |-> <<>>]
    ELSE IF cur \in seen \/ ~Has(device_primary_link, cur)
    THEN [ok |-> FALSE, hops |-> <<>>]
    ELSE LET link == device_primary_link[cur]
             rest == Chain(link.target, seen \cup {cur})
         IN [ok |-> rest.ok,
             hops |-> <<<<link.target, link.lqi>>>> \o rest.hops]

\* C16: when the chain of primary links of a device reaches the coordinator
\* without revisiting a device, its path is that chain, hop by hop with the
\* lqi of the link followed, and ends with the coordinator.
C16_PathIsTheChain ==
    Linked =>
       \A id \in NonCoordinators :
          Chain(id, {}).ok =>
             LET path == device_paths[id]
                 hops == Chain(id, {}).hops
             IN /\ Len(path) = Len(hops)
                /\ \A k \in DOMAIN path :
                      <<path[k].id, path[k].lqi>> = hops[k]
                /\ path[Len(path)].id = hierarchy.coordinator

\* a device whose chain reaches the coordinator over two other devices
C16_Witness ==
    /\ Linked
    /\ \E id \in NonCoordinators :
          /\ Chain(id, {}).ok
          /\ Len(device_paths[id]) = 3
          /\ device_paths[id][1].lqi # device_paths[id][2].lqi

\* ---- link qualities out of the scale
\* every link quality the run has put out so far
OutputLqis ==
    {topology.edges[n].lqi : n \in DOMAIN topology.edges}
    \cup UNION {{hierarchy.children[p][k][2] :
                    k \in DOMAIN hierarchy.children[p]} :
                 p \in DOMAIN hierarchy.children}
    \cup {device_primary_link[id].lqi : id \in DOMAIN device_primary_link}
    \cup UNION {{device_paths[id][k].lqi : k \in DOMAIN device_paths[id]} :
                 id \in DOMAIN device_paths}

\* C17: a neighbor record with a non-numeric lqi never aborts the run: only
\* a missing coordinator ends the run in an error, a run with a coordinator
\* that has built its hierarchy can go on to produce links and paths, and the
\* non-numeric value appears nowhere in the output.
C17_NonNumericLqiNeverAborts ==
    /\ pc = "error" => NoCoordinator
    /\ (pc = "hierarchy" /\ hierarchy.ok) => ENABLED GenerateHtml
    /\ NonNumeric \notin OutputLqis

\* C18: every link quality of the output is null or an integer of 0..255.
C18_LqiInScale ==
    \A q \in OutputLqis : q = None \/ q \in 0 .. LqiMax

\* ---- route status
\* the routes of d whose status is Active or Validation_Underway
LiveRoutes(d) ==
    {i \in DOMAIN d.routes :
        d.routes[i].route_status \in {"Active", "Validation_Underway"}}

\* C20: a device none of whose routes is Active or Validation_Underway has
\* no primary link of source type route, whatever the destination and the
\* next hop of its routes; a link of source type route has a live route to
\* address 0 behind it.
C20_DeadRouteGivesNoRouteLink ==
    Linked =>
       \A id \in NonCoordinators :
          /\ LiveRoutes(DeviceOf(id)) = {} =>
                device_primary_link[id].source_type # "route"
          /\ device_primary_link[id].source_type = "route" =>
                \E i \in LiveRoutes(DeviceOf(id)) :
                   nwk_to_int(DeviceOf(id).routes[i].dest_nwk) = 0

\* a device whose only routes are Inactive, one of them to address 0 with a
\* known device or the coordinator as next hop, linked by another rule
C20_Witness ==
    /\ Linked
    /\ \E id \in NonCoordinators :
          LET d == DeviceOf(id)
          IN /\ LiveRoutes(d) = {}
             /\ \E i \in DOMAIN d.routes :
                   /\ d.routes[i].route_status = "Inactive"
                   /\ nwk_to_int(d.routes[i].dest_nwk) = 0
                   /\ \/ nwk_to_int(d.routes[i].next_hop) = 0
                      \/ \E h \in DeviceIds(devices) :
                            /\ h # id
                            /\ DeviceOf(h).nwk
                                  = IntNwk(nwk_to_int(d.routes[i].next_hop))
             /\ device_primary_link[id].source_type # "route"

\* ---- two runs on one snapshot
\* a step from a completed run to the end of the run after it
SecondRun == pc = "done" /\ pc' = "regenerated"

AllReports ==
    UNION {{<<i, k>> : k \in DOMAIN devices[i].neighbors} : i \in DOMAIN devices}

\* the candidate parents of router rid: its own Parent entries and the Child
\* entries about it of Routers and of the Coordinator
ParentCandidates(rid) ==
    {r \in AllReports :
        \/ /\ devices[r[1]].ieee = rid
           /\ devices[r[1]].neighbors[r[2]].relationship = "Parent"
        \/ /\ devices[r[1]].neighbors[r[2]].ieee = rid
           /\ devices[r[1]].neighbors[r[2]].relationship = "Child"
           /\ devices[r[1]].device_type \in {"Router", "Coordinator"}}

\* the device a candidate proposes as parent
CandidateParent(r) ==
    IF devices[r[1]].neighbors[r[2]].relationship = "Parent"
    THEN devices[r[1]].neighbors[r[2]].ieee
    ELSE devices[r[1]].ieee

\* the first encountered among the candidates of highest lqi
BestCandidate(rid) ==
    CHOOSE r \in ParentCandidates(rid) :
       \A q \in ParentCandidates(rid) :
          \/ ReportLqi(q) < ReportLqi(r)
          \/ (ReportLqi(q) = ReportLqi(r) /\ Earlier(r, q))

\* the greatest lqi reported for the pair a, b; 0 without a report
PairQuality(a, b) ==
    IF PairLqis(a, b) = {} THEN 0
    ELSE CHOOSE x \in PairLqis(a, b) : \A y \in PairLqis(a, b) : y <= x

Routers == {devices[i].ieee : i \in {j \in DOMAIN devices :
                                       devices[j].device_type = "Router"}}

\* C21: a Router is the child of the parent its best candidate proposes (the
\* highest lqi, the first encountered on ties) with that lqi; a Router
\* without candidate is a child of the coordinator with the quality of the
\* router-coordinator pair; a quality of 0 is recorded as null.
C21_RouterParentIsBestCandidate ==
    Built =>
       \A rid \in Routers :
          /\ ChildSlots(hierarchy.children, rid) # {}
          /\ \A s \in ChildSlots(hierarchy.children, rid) :
                LET entry == hierarchy.children[s[1]][s[2]]
                    q == IF ParentCandidates(rid) # {}
                         THEN ReportLqi(BestCandidate(rid))
                         ELSE PairQuality(hierarchy.coordinator, rid)
                IN /\ s[1] = IF ParentCandidates(rid) # {}
                              THEN CandidateParent(BestCandidate(rid))
                              ELSE hierarchy.coordinator
                   /\ entry[2] = IF q > 0 THEN q ELSE None

\* a Router with two candidates of equal positive lqi that propose different
\* parents, attached below the first one
C21_Witness ==
    /\ Built
    /\ \E rid \in Routers :
       \E r, q \in ParentCandidates(rid) :
          /\ r # q /\ Earlier(r, q)
          /\ ReportLqi(r) = ReportLqi(q) /\ ReportLqi(r) > 0
          /\ CandidateParent(r) # CandidateParent(q)
          /\ \A s \in ChildSlots(hierarchy.children, rid) :
                s[1] = CandidateParent(r)

\* ---- the hierarchy parent of an end device
EndDevices == {devices[i].ieee : i \in {j \in DOMAIN devices :
                                          devices[j].device_type = "EndDevice"}}

\* the device at the other end of report r, seen from device id
OtherEnd(r, id) ==
    IF devices[r[1]].ieee = id THEN devices[r[1]].neighbors[r[2]].ieee
    ELSE devices[r[1]].ieee

\* the reports that touch id and a Router or the Coordinator
RouterEdges(id) ==
    {r \in AllReports :
        /\ devices[r[1]].ieee = id \/ devices[r[1]].neighbors[r[2]].ieee = id
        /\ \E j \in DOMAIN devices :
              /\ devices[j].ieee = OtherEnd(r, id)
              /\ devices[j].device_type \in {"Router", "Coordinator"}}

\* the reports of R that have the highest lqi of R
Strongest(R) == {r \in R : \A q \in R : ReportLqi(q) <= ReportLqi(r)}

\* the hierarchy parents of id
ParentsOf(id) == {s[1] : s \in ChildSlots(hierarchy.children, id)}

\* C22: an EndDevice reported as Child by a Router or the Coordinator is
\* attached to a reporter of the highest lqi; without such a report, an
\* EndDevice with an edge to a Router or the Coordinator is attached to the
\* other end of an edge of the highest quality, whatever that quality is;
\* an EndDevice without such an edge is attached to the coordinator.
C22_EndDeviceAttachment ==
    Built =>
       \A id \in EndDevices :
          /\ ParentsOf(id) # {}
          /\ \A p \in ParentsOf(id) :
                IF InboundReports(id) # {}
                THEN p \in {devices[r[1]].ieee : r \in Strongest(InboundReports(id))}
                ELSE IF RouterEdges(id) # {}
                THEN p \in {OtherEnd(r, id) : r \in Strongest(RouterEdges(id))}
                ELSE p = hierarchy.coordinator

\* ---- end devices are leaves
\* the devices that have a children list in the hierarchy
ParentKeys == {p \in DOMAIN hierarchy.children : hierarchy.children[p] # <<>>}

\* C23: no EndDevice is a parent key of the children map, whatever the
\* neighbor reports say, a Router's report naming an EndDevice as its Parent
\* included.
C23_EndDevicesAreLeaves ==
    Built => ParentKeys \cap EndDevices = {}

\* ---- the order of a children list
\* the type of the device with identity id, "" for the identity of no device
TypeOf(id) ==
    IF \E i \in DOMAIN devices : devices[i].ieee = id
    THEN devices[CHOOSE i \in DOMAIN devices : devices[i].ieee = id].device_type
    ELSE ""

\* the quality a children entry sorts by: null counts as 0
Quality(entry) == IF entry[2] = None THEN 0 ELSE entry[2]

\* the place of a device in the order of assignment: the Routers in the
\* order of the device list, then the EndDevices, then the others
AssignRank(id) ==
    LET i == CHOOSE j \in DOMAIN devices : devices[j].ieee = id
    IN (CASE TypeOf(id) = "Router" -> 0
          [] TypeOf(id) = "EndDevice" -> 1
          [] OTHER -> 2) * Len(devices) + i

\* C24: in every children list the Routers come before the other devices;
\* among the Routers and among the others the quality never grows from an
\* entry to the next, null and 0 coming last; entries of equal quality in
\* one group stand in the order they were assigned.
C24_ChildrenSorted ==
    Built =>
       \A p \in DOMAIN hierarchy.children :
       \A i, j \in DOMAIN hierarchy.children[p] :
          i < j =>
             LET a == hierarchy.children[p][i]
                 b == hierarchy.children[p][j]
                 sameGroup == (TypeOf(a[1]) = "Router") = (TypeOf(b[1]) = "Router")
             IN /\ sameGroup \/ TypeOf(a[1]) = "Router"
                /\ sameGroup => Quality(a) >= Quality(b)
                /\ (sameGroup /\ Quality(a) = Quality(b))
                      => AssignRank(a[1]) < AssignRank(b[1])
                /\ Quality(a) > 0 \/ a[2] = None

\* a children list in which a device assigned later stands before a device
\* of its group that has no quality
C24_Witness ==
    /\ Built
    /\ \E p \in DOMAIN hierarchy.children :
       \E i, j \in DOMAIN hierarchy.children[p] :
          /\ i < j
          /\ AssignRank(hierarchy.children[p][i][1])
                > AssignRank(hierarchy.children[p][j][1])
          /\ TypeOf(hierarchy.children[p][i][1])
                = TypeOf(hierarchy.children[p][j][1])
          /\ hierarchy.children[p][j][2] = None

\* ---- the own-neighbor rule
\* the entries of d's own neighbor list the rule may take: known devices,
\* and for an EndDevice only Routers and the Coordinator
EligibleEntries(d) ==
    {k \in DOMAIN d.neighbors :
        /\ d.neighbors[k].ieee \in DeviceIds(devices)
        /\ d.device_type = "EndDevice" =>
              TypeOf(d.neighbors[k].ieee) \in {"Router", "Coordinator"}}

\* the first among the eligible entries of highest lqi
BestEntry(d) ==
    CHOOSE k \in EligibleEntries(d) :
       \A j \in EligibleEntries(d) :
          \/ d.neighbors[j].lqi < d.neighbors[k].lqi
          \/ (d.neighbors[j].lqi = d.neighbors[k].lqi /\ k <= j)

UnresolvedBeforeOwnNeighbor(id) ==
    /\ ~RouteEvidence(DeviceOf(id))
    /\ ~ParentEvidence(DeviceOf(id))
    /\ ~InboundChildEvidence(DeviceOf(id))

\* C25: a Router or EndDevice left unresolved by the route, parent and
\* inbound-Child rules is linked to the neighbor of the first of its
\* eligible own entries of highest lqi, with that lqi and source type
\* neighbor; eligible are the known devices, for an EndDevice only the
\* Routers and the Coordinator among them; without an eligible entry the
\* device has the fallback link to the coordinator.
C25_OwnNeighborRule ==
    Linked =>
       \A id \in NonCoordinators :
          (UnresolvedBeforeOwnNeighbor(id)
             /\ DeviceOf(id).device_type \in {"Router", "EndDevice"}) =>
             LET d == DeviceOf(id)
             IN /\ Has(device_primary_link, id)
                /\ device_primary_link[id] =
                      IF EligibleEntries(d) # {}
                      THEN Link(d.neighbors[BestEntry(d)].ieee,
                                d.neighbors[BestEntry(d)].lqi, "neighbor")
                      ELSE Link(hierarchy.coordinator, None, "fallback")

\* an EndDevice whose own entries name a known EndDevice and nothing else,
\* with the fallback link
C25_Witness ==
    /\ Linked
    /\ \E id \in NonCoordinators :
          LET d == DeviceOf(id)
          IN /\ d.device_type = "EndDevice"
             /\ UnresolvedBeforeOwnNeighbor(id)
             /\ d.neighbors # <<>>
             /\ \A k \in DOMAIN d.neighbors :
                   /\ d.neighbors[k].ieee \in DeviceIds(devices)
                   /\ TypeOf(d.neighbors[k].ieee) = "EndDevice"
             /\ device_primary_link[id]
                   = Link(hierarchy.coordinator, None, "fallback")

\* ---- the refresh threads
\* the threads that have called do_refresh and not yet left it
Refreshing == {t \in ThreadIds : threads[t] \in DoRefreshPcs}

\* the threads inside the with of do_refresh
InBody == {t \in ThreadIds : threads[t] \in BodyPcs}

\* C26: at most one refresh is running or pending: no trigger starts a
\* do_refresh while a thread started earlier has not yet left its own.
C26_AtMostOneRefresh ==
    Cardinality(Refreshing) <= 1

\* C27: at most one thread is inside the with of do_refresh, and it is the
\* holder of refresh_lock.
C27_OneThreadInBody ==
    /\ Cardinality(InBody) <= 1
    /\ \A t \in InBody : refresh_lock = t

\* a thread exporting while the initial refresh, the auto-refresh loop and
\* another one wait for the lock
C27_Witness ==
    /\ \E t \in HttpThreads : threads[t] = "export"
    /\ threads[InitThread] = "lock"
    /\ threads[AutoThread] = "lock"
    /\ \E t \in HttpThreads : threads[t] = "lock"

\* some refresh thread has the HTML file open for writing
RefreshWriting == \E t \in ThreadIds : threads[t] = "writing"

\* serve_html has the HTML file open, for reading or through its own
\* generate_visualization
GetHasFileOpen ==
    http.pc \in {"missing_writing", "regenerate_writing", "reading"}

\* C28: GET / neither reads nor rewrites topology.html while a refresh
\* thread is writing it.
C28_GetKeepsOffDuringRefresh ==
    ~(RefreshWriting /\ GetHasFileOpen)

\* ---- the flags of a refresh
\* the positions of do_refresh between the assignments of True and False
\* to is_refreshing
FlaggedPcs == {"clear", "export", "export_failed", "generate",
               "generate_failed", "writing", "stamp", "unflag", "unflag_error"}

\* is_refreshing is True only while a thread that holds the lock is between
\* the two assignments; at the return of a success refresh_error is None, at
\* the return of a failure it is the message; the flag is False at both
FlagsAgree ==
    /\ is_refreshing =>
          \E t \in ThreadIds : threads[t] \in FlaggedPcs /\ refresh_lock = t
    /\ \A t \in ThreadIds :
          /\ threads[t] = "return_true" =>
                ~is_refreshing /\ refresh_error = None
          /\ threads[t] = "return_false" =>
                ~is_refreshing /\ refresh_error \in {ExportError, GenerateError}

\* last_refresh_time changes only in the step after a generation that
\* succeeded, on the way to the return of a success
StampOnSuccess ==
    last_refresh_time' # last_refresh_time =>
       \E t \in ThreadIds : threads[t] = "stamp" /\ threads'[t] = "unflag"

\* C29: every do_refresh that starts returns in the end, with is_refreshing
\* False, after a success as after an exception; is_refreshing is True only
\* while a thread is inside do_refresh holding refresh_lock; refresh_error
\* is None after a success and the message after a failure;
\* last_refresh_time changes only on success.
C29_RefreshAlwaysReturns ==
    /\ []FlagsAgree
    /\ [][StampOnSuccess]_vars
    /\ \A t \in ThreadIds :
          (threads[t] \in DoRefreshPcs) ~> (threads[t] \in {"finished", "sleep"})
    /\ is_refreshing ~> ~is_refreshing

\* the return of a refresh that failed in the generation, after an earlier
\* refresh that succeeded, while another thread waits for the lock
C29_Witness ==
    \E t, u \in ThreadIds :
       /\ threads[t] = "return_false"
       /\ refresh_error = GenerateError
       /\ ~is_refreshing
       /\ last_refresh_time >= 1
       /\ threads[u] = "lock"

\* ---- the result of a command
\* a call that returned, returned the timeout result or a message with the
\* id of the call
ReturnsOwnResponse ==
    ws_call.pc = "returned" =>
       \/ ws_result = TimeoutResult
       \/ ws_result.kind = "message" /\ ws_result.msg.id = ws_call.id

\* the id of a new call is greater than every id assigned before
IdsIncrease ==
    /\ msg_id' >= msg_id
    /\ ws_call'.id # ws_call.id =>
          ws_call'.id > msg_id /\ ws_call'.id = msg_id'

\* C30: ws_command returns the timeout result or the received message whose
\* id is the id it assigned; the ids of an exporter grow strictly and are
\* never used twice, so neither a late response to an earlier command nor
\* an event of another id is returned as the result of a later command.
C30_ResultMatchesCommand ==
    /\ []ReturnsOwnResponse
    /\ [][IdsIncrease]_vars

\* a call that returned its own response after it passed over a response to
\* an earlier command and a message without id
C30_Witness ==
    /\ ws_call.pc = "returned"
    /\ ws_result.kind = "message"
    /\ ws_result.msg.id = ws_call.id
    /\ None \in ws_call.skipped
    /\ \E k \in ws_call.skipped : k # None /\ k < ws_call.id

====
